---------------------------- MODULE Spec2Model ----------------------------
(***************************************************************************)
(* A model of the node-owning containers of mo1791/data-struct.            *)
(*                                                                         *)
(* The heap is an arena of node cells.  A cell is "unused", "live"         *)
(* (allocated and constructed) or, until the running operation returns,    *)
(* "freed" (destroyed and deallocated).  Cell ids are names of             *)
(* allocations, not addresses: when an operation returns, every pointer    *)
(* to a freed cell becomes the invalid pointer value Invalid, and the live *)
(* cells are renamed in traversal order (Settle), so that two heaps that   *)
(* differ only in the names of their cells are one state.  Null is the     *)
(* null pointer.                                                           *)
(*                                                                         *)
(* list<Type> is instantiated with Type = int and, as in the source, with  *)
(* allocator_t = std::allocator<Node>, which is stateless and always       *)
(* equal.                                                                  *)
(***************************************************************************)
EXTENDS Integers, Sequences, FiniteSets, TLC

\* Number of node cells the allocator can hand out in one run.
MaxNodes == 4
\* Element values are 0..MaxVal.
MaxVal == 2
\* Longest input range given to the range / initializer-list constructors.
MaxRange == 2

Null == 0
\* The value of a pointer whose node has been deallocated.
Invalid == -1
NodeIds == 1..MaxNodes
Values == 0..MaxVal
Lists == {"a", "b"}
Queues == {"q", "r"}
Stacks == {"s", "t"}

VARIABLES
    heap,   \* NodeIds -> [st, data, prev, next]: the node cells
    lists,  \* Lists -> [st, m_head]: the list objects
    ub,     \* TRUE once an operation has executed undefined behaviour
    last,   \* the last operation: its name, its container and its result
    qheap,  \* NodeIds -> [st, data, prev, next]: the cells of queue's nodes
    queues, \* Queues -> [st, m_head, m_size]: the queue objects
    sheap,  \* NodeIds -> [st, data, next]: the cells of stack's nodes
    stacks, \* Stacks -> [st, m_head, m_size]: the stack objects
    theap,  \* NodeIds -> [st, data, left, right, parent]: the tree's nodes
    tree,   \* [st, m_root, m_size]: the binary_search_tree object
    fheap,  \* NodeIds -> [st, data, next]: the cells of forward_list's nodes
    flist   \* [st, m_head]: the forward_list object

listVars == <<heap, lists>>
queueVars == <<qheap, queues>>
stackVars == <<sheap, stacks>>
treeVars == <<theap, tree>>
fwdVars == <<fheap, flist>>
vars == <<heap, lists, ub, last, qheap, queues, sheap, stacks, theap, tree,
          fheap, flist>>
\* What the operations of one container leave alone: the other containers.
outsideList == <<queueVars, stackVars, treeVars, fwdVars>>
outsideQueue == <<listVars, stackVars, treeVars, fwdVars>>
outsideStack == <<listVars, queueVars, treeVars, fwdVars>>
outsideTree == <<listVars, queueVars, stackVars, fwdVars>>
outsideFwd == <<listVars, queueVars, stackVars, treeVars>>

-----------------------------------------------------------------------------
(* Node cells *)

UnusedCell == [st |-> "unused", data |-> 0, prev |-> Null, next |-> Null]
FreedCell == [st |-> "freed", data |-> 0, prev |-> Null, next |-> Null]

\* A pointer that may be dereferenced: non-null and to a live node.
Live(h, n) == n \in NodeIds /\ h[n].st = "live"
\* Storage from traits::allocate in which no node has been constructed.
RawCell == [st |-> "raw", data |-> 0, prev |-> Null, next |-> Null]
\* Storage that traits::allocate has handed out and traits::deallocate has
\* not taken back.
Allocated(h, n) == n \in NodeIds /\ h[n].st \in {"live", "raw"}

FreeIds(h) == {n \in NodeIds : h[n].st = "unused"}
HasFree(h, k) == Cardinality(FreeIds(h)) >= k

\* traits::allocate: the next cell the allocator hands out.
Allocate(h) == CHOOSE n \in FreeIds(h) : \A m \in FreeIds(h) : n <= m

\* Node's constructors: m_data from the argument (Type{} = 0 for Node()),
\* m_prev and m_next pointing at the node itself.
ConstructNode(h, n, x) ==
    [h EXCEPT ![n] = [st |-> "live", data |-> x, prev |-> n, next |-> n]]

\* __M_create_node: allocate one cell and construct a node in it.
CreateNode(h, x) == ConstructNode(h, Allocate(h), x)

\* traits::destroy followed by traits::deallocate on one node.
DestroyDeallocate(h, n) == [h EXCEPT ![n] = FreedCell]

\* Node::push_front linking the node before this instead of after it.
NodePushFrontAtBack(h, this, node) ==
    LET h1 == [h EXCEPT ![node].prev = h[this].prev]
        h2 == [h1 EXCEPT ![node].next = this]
        h3 == [h2 EXCEPT ![h2[this].prev].next = node]
    IN  [h3 EXCEPT ![this].prev = node]

\* Node::push_front: link node directly after this.
NodePushFront(h, this, node) ==
    LET h1 == [h EXCEPT ![node].next = h[this].next]
        h2 == [h1 EXCEPT ![node].prev = this]
        h3 == [h2 EXCEPT ![h2[this].next].prev = node]
    IN  [h3 EXCEPT ![this].next = node]

\* Node::push_back without this->m_prev->m_next = node.
NodePushBackNoRelink(h, this, node) ==
    LET h1 == [h EXCEPT ![node].prev = h[this].prev]
        h2 == [h1 EXCEPT ![node].next = this]
    IN  [h2 EXCEPT ![this].prev = node]

\* Node::push_back: link node directly before this.
NodePushBack(h, this, node) ==
    LET h1 == [h EXCEPT ![node].prev = h[this].prev]
        h2 == [h1 EXCEPT ![node].next = this]
        h3 == [h2 EXCEPT ![h2[this].prev].next = node]
    IN  [h3 EXCEPT ![this].prev = node]

-----------------------------------------------------------------------------
(* Traversal *)

RECURSIVE WalkNext(_, _, _, _)
\* Iterator::operator++ from n until the iterator equals stop.
WalkNext(h, n, stop, fuel) ==
    IF n = stop \/ fuel = 0 \/ ~Live(h, n)
    THEN <<>>
    ELSE <<n>> \o WalkNext(h, h[n].next, stop, fuel - 1)

\* The nodes visited from begin() to end(); none when m_head cannot be
\* dereferenced.
RingNodes(h, head) ==
    IF Live(h, head) THEN WalkNext(h, h[head].next, head, MaxNodes) ELSE <<>>

\* The element sequence from begin() to end().
ListSeq(h, head) ==
    LET ns == RingNodes(h, head) IN [i \in 1..Len(ns) |-> h[ns[i]].data]

Range(s) == {s[i] : i \in 1..Len(s)}

-----------------------------------------------------------------------------
(* The record of the last operation *)

Other(l) == CHOOSE m \in Lists : m # l

Void == [kind |-> "void", val |-> 0]
Crash == [kind |-> "crash", val |-> 0]
Nullopt == [kind |-> "nullopt", val |-> 0]
\* The outcome of a call that does not return.
Diverges == [kind |-> "diverges", val |-> 0]
Some(v) == [kind |-> "value", val |-> v]
Bool(b) == [kind |-> "bool", val |-> IF b THEN 1 ELSE 0]
\* The call left by an exception.
Threw == [kind |-> "threw", val |-> 0]
SizeOf(n) == [kind |-> "size", val |-> n]
IterAt(n) == [kind |-> "iter", val |-> n]

\* What a call that executes undefined behaviour may be seen to return.
UBResults(kind) ==
    {Crash} \cup
    CASE kind = "bool" -> {Bool(TRUE), Bool(FALSE)}
      [] kind = "size" -> {SizeOf(n) : n \in 0..MaxNodes}
      [] kind = "optional" -> {Nullopt} \cup {Some(v) : v \in Values}
      [] OTHER -> {Void}

\* The member function called last, the list it was called on, what it
\* returned and, for the overloads that take a count or a range, the
\* position and the elements passed.
OpWith(name, l, res, arg) == [op |-> name, l |-> l, res |-> res, arg |-> arg]
Op(name, l, res) == OpWith(name, l, res, <<>>)

\* A call that dereferences a null or invalid pointer, or fails an assert:
\* the run's behaviour is undefined from here on.
Undefined(name, l, kind) ==
    /\ ub' = TRUE
    /\ \E r \in UBResults(kind) : last' = Op(name, l, r)
    /\ UNCHANGED <<listVars, outsideList>>

-----------------------------------------------------------------------------
(* Renaming of cells when an operation returns *)

RECURSIVE AppendNew(_, _)
\* order, followed by the nodes of s that are not yet in it.
AppendNew(order, s) ==
    IF s = <<>>
    THEN order
    ELSE AppendNew(IF Head(s) \in Range(order) THEN order ELSE Append(order, Head(s)),
                   Tail(s))

RECURSIVE Ascending(_)
\* The members of a set of node ids in ascending order.
Ascending(S) ==
    IF S = {}
    THEN <<>>
    ELSE LET m == CHOOSE n \in S : \A k \in S : n <= k
         IN  <<m>> \o Ascending(S \ {m})

\* The sentinel and the nodes of the ring of a list with this m_head.
Ring(h, head) ==
    IF Live(h, head) THEN <<head>> \o RingNodes(h, head) ELSE <<>>

\* The allocated cells: list a's ring, list b's ring, then the cells no list
\* reaches.
CellOrder(h, ls) ==
    LET reached == AppendNew(Ring(h, ls["a"].m_head), Ring(h, ls["b"].m_head))
    IN  reached \o Ascending({n \in NodeIds : Allocated(h, n)} \ Range(reached))

\* The new name of a pointer: Null stays Null, a pointer to a cell that is
\* not live is Invalid.
Renamed(order, p) ==
    IF p = Null THEN Null
    ELSE IF p \in Range(order) THEN CHOOSE i \in 1..Len(order) : order[i] = p
    ELSE Invalid

SettleHeap(h, order) ==
    [i \in NodeIds |->
        IF i <= Len(order)
        THEN [st |-> h[order[i]].st, data |-> h[order[i]].data,
              prev |-> Renamed(order, h[order[i]].prev),
              next |-> Renamed(order, h[order[i]].next)]
        ELSE UnusedCell]

SettleLists(ls, order) ==
    [l \in Lists |-> [ls[l] EXCEPT !.m_head = Renamed(order, ls[l].m_head)]]

SettleResult(res, order) ==
    IF res.kind = "iter" THEN IterAt(Renamed(order, res.val)) ELSE res

\* The state in which an operation returns: heap h and list objects ls, up
\* to the names of the cells, and the record of the operation.
Return(h, ls, name, l, res) ==
    LET order == CellOrder(h, ls)
    IN  /\ heap' = SettleHeap(h, order)
        /\ lists' = SettleLists(ls, order)
        /\ last' = Op(name, l, SettleResult(res, order))
        /\ UNCHANGED <<ub, outsideList>>

NoList == [st |-> "none", m_head |-> Null]
\* A queue object before its constructor: m_head{nullptr}, m_size{0UL}.
NoQueue == [st |-> "none", m_head |-> Null, m_size |-> 0]
\* A stack object before its constructor: m_head{nullptr}, m_size{0UL}.
NoStack == [st |-> "none", m_head |-> Null, m_size |-> 0]
\* A cell of stack's arena in which no node lives.
StackUnusedCell == [st |-> "unused", data |-> 0, next |-> Null]
\* A binary_search_tree object before its constructor: m_root{nullptr},
\* m_size{0UL}.
NoTree == [st |-> "none", m_root |-> Null, m_size |-> 0]
TreeUnusedCell ==
    [st |-> "unused", data |-> 0, left |-> Null, right |-> Null, parent |-> Null]
\* A forward_list object before its constructor: m_head{nullptr}.
NoFwd == [st |-> "none", m_head |-> Null]
FwdUnusedCell == [st |-> "unused", data |-> 0, next |-> Null]

IsLive(l) == lists[l].st = "live"
\* The list object exists and its m_head may be dereferenced.
ValidList(l) == IsLive(l) /\ Live(heap, lists[l].m_head)

Init ==
    /\ heap = [n \in NodeIds |-> UnusedCell]
    /\ lists = [l \in Lists |-> NoList]
    /\ ub = FALSE
    /\ last = Op("init", "a", Void)
    /\ qheap = [n \in NodeIds |-> UnusedCell]
    /\ queues = [q \in Queues |-> NoQueue]
    /\ sheap = [n \in NodeIds |-> StackUnusedCell]
    /\ stacks = [s \in Stacks |-> NoStack]
    /\ theap = [n \in NodeIds |-> TreeUnusedCell]
    /\ tree = NoTree
    /\ fheap = [n \in NodeIds |-> FwdUnusedCell]
    /\ flist = NoFwd

-----------------------------------------------------------------------------
(* list: construction *)

\* A list object after its constructor.
Constructed(ls, l, head) ==
    [ls EXCEPT ![l] = [st |-> "live", m_head |-> head]]

\* list(): m_head = __M_create_node().
DefaultCtor(l) ==
    /\ ~ub /\ lists[l].st = "none" /\ HasFree(heap, 1)
    /\ Return(CreateNode(heap, 0), Constructed(lists, l, Allocate(heap)),
              "list", l, Void)

RECURSIVE RangeInit(_, _, _)
\* __M_range_init: push_back a new node onto m_head for every *first.
RangeInit(h, head, s) ==
    IF s = <<>>
    THEN h
    ELSE RangeInit(NodePushBack(CreateNode(h, Head(s)), head, Allocate(h)),
                   head, Tail(s))

\* list(first, last): list{} and then __M_range_init(first, last).
RangeCtorEffect(l, s, how) ==
    /\ ~ub /\ lists[l].st = "none" /\ HasFree(heap, 1 + Len(s))
    /\ Return(RangeInit(CreateNode(heap, 0), Allocate(heap), s),
              Constructed(lists, l, Allocate(heap)), how, l, Void)

RangeCtor(l, s) == RangeCtorEffect(l, s, "list_range")

\* list(std::initializer_list<Type>) delegates to list(first, last).
InitListCtor(l, s) == RangeCtorEffect(l, s, "list_init_list")

\* An __M_range_init whose loop is never entered.
RangeInitSkipped(h, head, first, stop, fuel) == h

RECURSIVE RangeInitIter(_, _, _, _, _)
\* __M_range_init(first, last) with iterators of a list: push_back a new
\* node holding *first onto m_head, and step first, until first == last.
RangeInitIter(h, head, first, stop, fuel) ==
    IF first = stop \/ fuel = 0
    THEN h
    ELSE RangeInitIter(NodePushBack(CreateNode(h, h[first].data), head, Allocate(h)),
                       head, h[first].next, stop, fuel - 1)

\* list(src.begin(), src.end()): list{} and then __M_range_init; begin()
\* and end() read src.m_head->m_next and src.m_head.
RangeCtorFrom(l, src) ==
    /\ ~ub /\ l # src /\ lists[l].st = "none" /\ IsLive(src)
    /\ IF ValidList(src)
       THEN /\ HasFree(heap, 1 + Len(RingNodes(heap, lists[src].m_head)))
            /\ Return(RangeInitIter(CreateNode(heap, 0), Allocate(heap),
                                    heap[lists[src].m_head].next, lists[src].m_head,
                                    MaxNodes),
                      Constructed(lists, l, Allocate(heap)), "list_range", l, Void)
       ELSE Undefined("list_range", l, "void")

RECURSIVE CloneLoop(_, _, _, _, _)
\* The while loop of __M_clone.
CloneLoop(h, cursor, source, end, fuel) ==
    IF source = end \/ fuel = 0 \/ ~HasFree(h, 1)
    THEN h
    ELSE CloneLoop(NodePushBack(CreateNode(h, h[source].data), cursor, Allocate(h)),
                   cursor, h[source].next, end, fuel - 1)

\* __M_clone(source) for a non-null source: a new sentinel, then one new node
\* per node from source up to source->m_prev.
Clone(h, source) ==
    CloneLoop(CreateNode(h, 0), Allocate(h), source, h[source].prev, MaxNodes)

\* A copy constructor that takes the source's m_head instead of cloning.
CopyCtorShallow(l, src) ==
    /\ ~ub /\ l # src /\ lists[l].st = "none" /\ ValidList(src)
    /\ Return(heap, Constructed(lists, l, lists[src].m_head), "list_copy", l, Void)

\* list(const list &outer): m_head = __M_clone(outer.m_head->m_next).
CopyCtor(l, src) ==
    /\ ~ub /\ l # src /\ lists[l].st = "none" /\ IsLive(src)
    /\ IF ValidList(src)
       THEN /\ HasFree(heap, 1 + Len(RingNodes(heap, lists[src].m_head)))
            /\ Return(Clone(heap, heap[lists[src].m_head].next),
                      Constructed(lists, l, Allocate(heap)),
                      "list_copy", l, Void)
       ELSE Undefined("list_copy", l, "void")

\* A move constructor that leaves the source with a null m_head.
MoveCtorNullSource(l, src) ==
    /\ ~ub /\ l # src /\ lists[l].st = "none" /\ IsLive(src) /\ HasFree(heap, 1)
    /\ Return(heap,
              [Constructed(lists, l, lists[src].m_head)
                  EXCEPT ![src].m_head = Null],
              "list_move", l, Void)

\* A move constructor that takes the source's m_head and leaves the source
\* as it is.
MoveCtorKeepsSource(l, src) ==
    /\ ~ub /\ l # src /\ lists[l].st = "none" /\ IsLive(src) /\ HasFree(heap, 1)
    /\ Return(heap, Constructed(lists, l, lists[src].m_head), "list_move", l, Void)

\* list(list &&outer): m_head = std::exchange(outer.m_head, __M_create_node()).
MoveCtor(l, src) ==
    /\ ~ub /\ l # src /\ lists[l].st = "none" /\ IsLive(src) /\ HasFree(heap, 1)
    /\ Return(CreateNode(heap, 0),
              [Constructed(lists, l, lists[src].m_head)
                  EXCEPT ![src].m_head = Allocate(heap)],
              "list_move", l, Void)

-----------------------------------------------------------------------------
(* list: insertion *)

\* The iterators a caller can hold into list l: its elements and end().
Positions(l) ==
    Range(RingNodes(heap, lists[l].m_head)) \cup {lists[l].m_head}

\* __M_create_node without the catch block: the storage stays allocated.
CreateNodeThrowsNoCatch(h) == [h EXCEPT ![Allocate(h)] = RawCell]

\* __M_create_node when traits::construct throws: traits::allocate, then in
\* the catch block traits::deallocate, and the exception is thrown on.
CreateNodeThrows(h) ==
    LET node == Allocate(h)
        h1 == [h EXCEPT ![node] = RawCell]
    IN  [h1 EXCEPT ![node] = FreedCell]

\* push_back, push_front, emplace_back or emplace_front when constructing
\* the element throws: the exception leaves __M_create_node before
\* Node::push_back / Node::push_front is called.
PushThrows(l, name) ==
    /\ ~ub /\ IsLive(l)
    /\ IF ValidList(l)
       THEN /\ HasFree(heap, 1)
            /\ Return(CreateNodeThrows(heap), lists, name, l, Threw)
       ELSE Undefined(name, l, "void")

PushBackThrows(l) == PushThrows(l, "push_back")
PushFrontThrows(l) == PushThrows(l, "push_front")
EmplaceBackThrows(l) == PushThrows(l, "emplace_back")
EmplaceFrontThrows(l) == PushThrows(l, "emplace_front")

\* push_back(data): m_head->push_back(__M_create_node(data)), after
\* assert(m_head != nullptr).
PushBackEffect(l, x, name) ==
    /\ ~ub /\ IsLive(l)
    /\ IF ValidList(l)
       THEN /\ HasFree(heap, 1)
            /\ Return(NodePushBack(CreateNode(heap, x), lists[l].m_head, Allocate(heap)),
                      lists, name, l, Void)
       ELSE Undefined(name, l, "void")

\* push_front(data): m_head->push_front(__M_create_node(data)), after
\* assert(m_head != nullptr).
PushFrontEffect(l, x, name) ==
    /\ ~ub /\ IsLive(l)
    /\ IF ValidList(l)
       THEN /\ HasFree(heap, 1)
            /\ Return(NodePushFront(CreateNode(heap, x), lists[l].m_head, Allocate(heap)),
                      lists, name, l, Void)
       ELSE Undefined(name, l, "void")

PushBack(l, x) == PushBackEffect(l, x, "push_back")
PushFront(l, x) == PushFrontEffect(l, x, "push_front")

\* emplace_back / emplace_front: as push_back / push_front, the node being
\* constructed with std::in_place.
EmplaceBack(l, x) == PushBackEffect(l, x, "emplace_back")
EmplaceFront(l, x) == PushFrontEffect(l, x, "emplace_front")

\* insert_after(position, data): position.m_cursor->push_front(new node).
InsertAfter(l, pos, x) ==
    /\ ~ub /\ ValidList(l) /\ pos \in Positions(l) /\ HasFree(heap, 1)
    /\ Return(NodePushFront(CreateNode(heap, x), pos, Allocate(heap)),
              lists, "insert_after", l, Void)

\* An insert_before that links the new node after position.
InsertBeforeLinksAfter(l, pos, x) ==
    /\ ~ub /\ ValidList(l) /\ pos \in Positions(l) /\ HasFree(heap, 1)
    /\ Return(NodePushFront(CreateNode(heap, x), pos, Allocate(heap)),
              lists, "insert_before", l, Void)

\* insert_before(position, data): position.m_cursor->push_back(new node).
InsertBefore(l, pos, x) ==
    /\ ~ub /\ ValidList(l) /\ pos \in Positions(l) /\ HasFree(heap, 1)
    /\ Return(NodePushBack(CreateNode(heap, x), pos, Allocate(heap)),
              lists, "insert_before", l, Void)

RECURSIVE InsertAfterCountLoop(_, _, _, _)
\* insert_after(position, count, data): while (count--) insert_after(position, data).
InsertAfterCountLoop(h, pos, count, x) ==
    IF count = 0
    THEN h
    ELSE InsertAfterCountLoop(NodePushFront(CreateNode(h, x), pos, Allocate(h)),
                              pos, count - 1, x)

RECURSIVE InsertAfterRangeSamePosition(_, _, _)
\* The loop of insert_after(position, first, last) without the step
\* position = std::ranges::next(position).
InsertAfterRangeSamePosition(h, pos, s) ==
    IF s = <<>>
    THEN h
    ELSE InsertAfterRangeSamePosition(
             NodePushFront(CreateNode(h, Head(s)), pos, Allocate(h)), pos, Tail(s))

RECURSIVE InsertAfterRangeLoop(_, _, _)
\* insert_after(position, first, last): insert_after(position, *first), then
\* position and first both step forward, until first == last.
InsertAfterRangeLoop(h, pos, s) ==
    IF s = <<>>
    THEN h
    ELSE LET h1 == NodePushFront(CreateNode(h, Head(s)), pos, Allocate(h))
         IN  InsertAfterRangeLoop(h1, h1[pos].next, Tail(s))

RECURSIVE InsertBeforeCountLoop(_, _, _, _)
\* insert_before(position, count, data): while (count--) insert_before(position, data).
InsertBeforeCountLoop(h, pos, count, x) ==
    IF count = 0
    THEN h
    ELSE InsertBeforeCountLoop(NodePushBack(CreateNode(h, x), pos, Allocate(h)),
                               pos, count - 1, x)

RECURSIVE InsertBeforeRangeLoop(_, _, _)
\* insert_before(position, first, last): insert_before(position, *first++)
\* until first == last.
InsertBeforeRangeLoop(h, pos, s) ==
    IF s = <<>>
    THEN h
    ELSE InsertBeforeRangeLoop(NodePushBack(CreateNode(h, Head(s)), pos, Allocate(h)),
                               pos, Tail(s))

\* A call of one of the count or range overloads with position pos and
\* elements s, leaving heap h.
InsertMany(l, pos, s, h, name) ==
    /\ ~ub /\ ValidList(l) /\ pos \in Positions(l) /\ HasFree(heap, Len(s))
    /\ LET order == CellOrder(h, lists)
       IN  /\ heap' = SettleHeap(h, order)
           /\ lists' = SettleLists(lists, order)
           /\ last' = OpWith(name, l, Void, <<Renamed(order, pos), s>>)
           /\ UNCHANGED <<ub, outsideList>>

\* count copies of x.
Copies(count, x) == [i \in 1..count |-> x]

InsertAfterCount(l, pos, count, x) ==
    InsertMany(l, pos, Copies(count, x), InsertAfterCountLoop(heap, pos, count, x),
               "insert_after_count")

InsertAfterRange(l, pos, s) ==
    InsertMany(l, pos, s, InsertAfterRangeLoop(heap, pos, s), "insert_after_range")

InsertBeforeCount(l, pos, count, x) ==
    InsertMany(l, pos, Copies(count, x), InsertBeforeCountLoop(heap, pos, count, x),
               "insert_before_count")

InsertBeforeRange(l, pos, s) ==
    InsertMany(l, pos, s, InsertBeforeRangeLoop(heap, pos, s), "insert_before_range")

-----------------------------------------------------------------------------
(* list: removal *)

\* erase(position) that unlinks the target and does not deallocate it.
EraseHeapNoFree(h, target) ==
    LET h1 == [h EXCEPT ![h[target].prev].next = h[target].next]
    IN  [h1 EXCEPT ![h1[target].next].prev = h1[target].prev]

\* erase(position) without target->m_next->m_prev = target->m_prev.
EraseHeapNoBackLink(h, target) ==
    DestroyDeallocate([h EXCEPT ![h[target].prev].next = h[target].next], target)

\* erase(position), the heap afterwards: unlink target, destroy and
\* deallocate it.
EraseHeap(h, target) ==
    LET h1 == [h EXCEPT ![h[target].prev].next = h[target].next]
        h2 == [h1 EXCEPT ![h1[target].next].prev = h1[target].prev]
    IN  DestroyDeallocate(h2, target)

\* erase(position) returning target->m_prev.
EraseNextPrev(h, target) == h[target].prev

\* erase(position), the iterator returned: target->m_next, read after the
\* two link assignments.
EraseNext(h, target) ==
    LET h1 == [h EXCEPT ![h[target].prev].next = h[target].next]
        h2 == [h1 EXCEPT ![h1[target].next].prev = h1[target].prev]
    IN  h2[target].next

\* erase(position) for a position at an element of l.
Erase(l, pos) ==
    /\ ~ub /\ ValidList(l) /\ pos \in Range(RingNodes(heap, lists[l].m_head))
    /\ Return(EraseHeap(heap, pos), lists, "erase", l, IterAt(EraseNext(heap, pos)))

\* An erase(first, last) with if (first != last) in place of the while.
EraseRangeOnce(h, first, stop, fuel) ==
    IF first = stop THEN h ELSE EraseHeap(h, first)

RECURSIVE EraseRangeLoop(_, _, _, _)
\* erase(first, last): while (first != last) erase(first++); first steps to
\* m_next before the node it pointed at is erased.
EraseRangeLoop(h, first, stop, fuel) ==
    IF first = stop \/ fuel = 0
    THEN h
    ELSE EraseRangeLoop(EraseHeap(h, first), h[first].next, stop, fuel - 1)

\* [first, stop) is a range of elements of l: empty, or from an element up
\* to a later element or end().
ElementRange(l, first, stop) ==
    LET ns == RingNodes(heap, lists[l].m_head)
    IN  /\ first \in Positions(l) /\ stop \in Positions(l)
        /\ \/ first = stop
           \/ /\ first \in Range(ns)
              /\ \/ stop = lists[l].m_head
                 \/ \E i, j \in 1..Len(ns) : i < j /\ ns[i] = first /\ ns[j] = stop

\* erase(first, last) on a range of elements of l; returns last.
EraseRange(l, first, stop) ==
    /\ ~ub /\ ValidList(l) /\ ElementRange(l, first, stop)
    /\ Return(EraseRangeLoop(heap, first, stop, MaxNodes), lists,
              "erase_range", l, IterAt(stop))

\* pop_front(): erase(iterator{m_head->m_next}).  On an empty list the
\* target is the sentinel itself.
PopFront(l) ==
    /\ ~ub /\ IsLive(l)
    /\ IF ValidList(l)
       THEN Return(EraseHeap(heap, heap[lists[l].m_head].next), lists,
                   "pop_front", l, Void)
       ELSE Undefined("pop_front", l, "void")

\* pop_back(): erase(iterator{m_head->m_prev}).  On an empty list the
\* target is the sentinel itself.
PopBack(l) ==
    /\ ~ub /\ IsLive(l)
    /\ IF ValidList(l)
       THEN Return(EraseHeap(heap, heap[lists[l].m_head].prev), lists,
                   "pop_back", l, Void)
       ELSE Undefined("pop_back", l, "void")

\* empty() for a non-null m_head:
\* (m_head != nullptr) || (m_head->m_prev == m_head && m_head->m_next == m_head).
ListEmpty(h, head) ==
    (head # Null) \/ (h[head].prev = head /\ h[head].next = head)

RECURSIVE ClearLoop(_, _, _)
\* The loop of clear(): while (not empty()) pop_front().
ClearLoop(h, head, fuel) ==
    IF fuel = 0 \/ ListEmpty(h, head)
    THEN h
    ELSE ClearLoop(EraseHeap(h, h[head].next), head, fuel - 1)

\* clear(): the loop, then destroy and deallocate m_head and set it to
\* nullptr.  With m_head already null, empty() dereferences it; with m_head
\* invalid, the sentinel is deallocated a second time.
Clear(l) ==
    /\ ~ub /\ IsLive(l)
    /\ IF ValidList(l)
       THEN Return(DestroyDeallocate(ClearLoop(heap, lists[l].m_head, MaxNodes),
                                     lists[l].m_head),
                   [lists EXCEPT ![l].m_head = Null], "clear", l, Void)
       ELSE Undefined("clear", l, "void")

-----------------------------------------------------------------------------
(* list: access and queries *)

\* An observer: the heap and the list objects stay as they are.
Observed(name, l, res) ==
    /\ last' = Op(name, l, res)
    /\ UNCHANGED <<listVars, ub, outsideList>>

\* empty(): true for every non-null m_head; a null m_head is dereferenced.
Empty(l) ==
    /\ ~ub /\ IsLive(l)
    /\ IF lists[l].m_head # Null
       THEN Observed("empty", l, Bool(ListEmpty(heap, lists[l].m_head)))
       ELSE Undefined("empty", l, "bool")

\* front(): nullopt if empty(), else m_head->m_next->m_data.
FrontResult(h, head) ==
    IF ListEmpty(h, head) THEN Nullopt ELSE Some(h[h[head].next].data)

\* back(): nullopt if empty(), else m_head->m_prev->m_data.
BackResult(h, head) ==
    IF ListEmpty(h, head) THEN Nullopt ELSE Some(h[h[head].prev].data)

Front(l) ==
    /\ ~ub /\ IsLive(l)
    /\ IF lists[l].m_head # Null
       THEN Observed("front", l, FrontResult(heap, lists[l].m_head))
       ELSE Undefined("front", l, "optional")

Back(l) ==
    /\ ~ub /\ IsLive(l)
    /\ IF lists[l].m_head # Null
       THEN Observed("back", l, BackResult(heap, lists[l].m_head))
       ELSE Undefined("back", l, "optional")

\* size(): std::distance(begin(), end()), the number of ++ steps from
\* m_head->m_next to m_head.
ListSize(h, head) == Len(WalkNext(h, h[head].next, head, MaxNodes))

Size(l) ==
    /\ ~ub /\ IsLive(l)
    /\ IF ValidList(l)
       THEN Observed("size", l, SizeOf(ListSize(heap, lists[l].m_head)))
       ELSE Undefined("size", l, "size")

-----------------------------------------------------------------------------
(* list: swap *)

\* std::swap(lhs.m_head, rhs.m_head) on the list objects.
SwapHeads(ls, l, r) ==
    [ls EXCEPT ![l].m_head = ls[r].m_head, ![r].m_head = ls[l].m_head]

\* A swap that assigns rhs.m_head to lhs.m_head and leaves rhs as it is.
SwapOneWay(l, r) ==
    /\ ~ub /\ l # r /\ IsLive(l) /\ IsLive(r)
    /\ Return(heap, [lists EXCEPT ![l].m_head = lists[r].m_head],
              "swap", l, Void)

\* swap(lhs, rhs): std::swap(lhs.m_head, rhs.m_head); std::allocator does not
\* propagate on swap.
Swap(l, r) ==
    /\ ~ub /\ l # r /\ IsLive(l) /\ IsLive(r)
    /\ Return(heap, SwapHeads(lists, l, r), "swap", l, Void)

-----------------------------------------------------------------------------
(* list: assignment and destruction *)

\* operator=(const list&) without the this == &rhs test.
CopyAssignUnguarded(l, src) ==
    /\ ~ub /\ IsLive(l) /\ IsLive(src)
    /\ Undefined("copy_assign", l, "void")

\* operator=(const list &rhs): nothing when this == &rhs.  Otherwise
\* __M_copy_assign(rhs, std::false_type), std::allocator not propagating on
\* copy assignment: clear() leaves m_head == nullptr (or is itself undefined
\* on a null or invalid m_head), and __M_assign then calls clear() again
\* when rhs holds no element and empty() when it holds one; both evaluate
\* m_head->m_prev on the null m_head.
CopyAssign(l, src) ==
    /\ ~ub /\ IsLive(l) /\ IsLive(src)
    /\ IF l = src
       THEN Return(heap, lists, "copy_assign", l, Void)
       ELSE Undefined("copy_assign", l, "void")

\* The branches of __M_move_assign: the allocator propagates on move
\* assignment or is always equal; it does neither and the two allocators
\* compare equal; it does neither and they compare unequal.
MoveBranches == {"propagate", "equal", "unequal"}

\* The heap after clear() on a list whose m_head points at its sentinel.
ClearHeap(h, head) == DestroyDeallocate(ClearLoop(h, head, MaxNodes), head)

\* A move assignment that copies rhs.m_head and leaves rhs as it is.
MoveAssignNoExchange(l, src, how) ==
    /\ ~ub /\ IsLive(l) /\ IsLive(src)
    /\ Return(heap, [lists EXCEPT ![l].m_head = lists[src].m_head],
              "move_assign", l, Void)

\* operator=(list &&rhs): nothing when this == &rhs.  Otherwise
\* __M_move_assign: in the propagating and the equal-allocator branch
\* clear(), then m_head = std::exchange(rhs.m_head, __M_create_node()); in
\* the unequal-allocator branch the exchange alone.
MoveAssign(l, src, how) ==
    /\ ~ub /\ IsLive(l) /\ IsLive(src)
    /\ IF l = src
       THEN Return(heap, lists, "move_assign", l, Void)
       ELSE IF how = "unequal"
       THEN /\ HasFree(heap, 1)
            /\ Return(CreateNode(heap, 0),
                      [lists EXCEPT ![l].m_head = lists[src].m_head,
                                    ![src].m_head = Allocate(heap)],
                      "move_assign", l, Void)
       ELSE IF ValidList(l)
       THEN /\ HasFree(heap, 1)
            /\ LET h1 == ClearHeap(heap, lists[l].m_head)
               IN  Return(CreateNode(h1, 0),
                          [lists EXCEPT ![l].m_head = lists[src].m_head,
                                        ![src].m_head = Allocate(h1)],
                          "move_assign", l, Void)
       ELSE Undefined("move_assign", l, "void")

\* ~list(): clear(); the list object is gone afterwards.
Destroy(l) ==
    /\ ~ub /\ IsLive(l)
    /\ IF ValidList(l)
       THEN Return(ClearHeap(heap, lists[l].m_head),
                   [lists EXCEPT ![l] = NoList], "destroy", l, Void)
       ELSE Undefined("destroy", l, "void")

-----------------------------------------------------------------------------
(* queue *)

\* queue's __M_create_node: allocate one cell and construct a node in it.
QueueCreateNode(h, x) == ConstructNode(h, Allocate(h), x)

\* queue's Node::push_back: link node directly before this.
QueueNodePushBack(h, this, node) ==
    LET h1 == [h EXCEPT ![node].prev = h[this].prev]
        h2 == [h1 EXCEPT ![node].next = this]
        h3 == [h2 EXCEPT ![h2[this].prev].next = node]
    IN  [h3 EXCEPT ![this].prev = node]

\* queue(): m_head = __M_create_node().
QueueCtor(q) ==
    /\ ~ub /\ queues[q].st = "none" /\ HasFree(qheap, 1)
    /\ qheap' = QueueCreateNode(qheap, 0)
    /\ queues' = [queues EXCEPT ![q] = [st |-> "live", m_head |-> Allocate(qheap),
                                        m_size |-> 0]]
    /\ last' = Op("queue", q, Void)
    /\ UNCHANGED <<ub, outsideQueue>>

\* queue::push_back(data): m_head->push_back(__M_create_node(data));
\* m_size = m_size + 1.
QueuePushBack(q, x) ==
    /\ ~ub /\ queues[q].st = "live" /\ HasFree(qheap, 1)
    /\ qheap' = QueueNodePushBack(QueueCreateNode(qheap, x), queues[q].m_head,
                                  Allocate(qheap))
    /\ queues' = [queues EXCEPT ![q].m_size = @ + 1]
    /\ last' = Op("queue_push_back", q, Void)
    /\ UNCHANGED <<ub, outsideQueue>>

\* queue::empty() for a non-null m_head:
\* (m_head != nullptr) || (m_head == m_head->m_prev && m_head == m_head->m_next).
QueueIsEmpty(h, head) ==
    (head # Null) \/ (head = h[head].prev /\ head = h[head].next)

\* queue::empty() on a constructed queue, whose m_head is not null.
QueueEmpty(q) ==
    /\ ~ub /\ queues[q].st = "live"
    /\ last' = Op("queue_empty", q, Bool(QueueIsEmpty(qheap, queues[q].m_head)))
    /\ UNCHANGED <<ub, queueVars, outsideQueue>>

\* queue::emplace_back(args...): m_head->push_back(__M_create_node(
\* std::in_place, args...)); m_size = m_size + 1.
QueueEmplaceBack(q, x) ==
    /\ ~ub /\ queues[q].st = "live" /\ HasFree(qheap, 1)
    /\ qheap' = QueueNodePushBack(QueueCreateNode(qheap, x), queues[q].m_head,
                                  Allocate(qheap))
    /\ queues' = [queues EXCEPT ![q].m_size = @ + 1]
    /\ last' = Op("queue_emplace_back", q, Void)
    /\ UNCHANGED <<ub, outsideQueue>>

RECURSIVE QueueRangeInit(_, _, _)
\* __M_range_init(first, last): m_head->push_back(__M_create_node(*first))
\* for each element of the range; m_size is not written.
QueueRangeInit(h, head, r) ==
    IF r = <<>>
    THEN h
    ELSE QueueRangeInit(QueueNodePushBack(QueueCreateNode(h, Head(r)), head,
                                          Allocate(h)),
                        head, Tail(r))

QueueRangeCtorEffect(q, r, name) ==
    /\ ~ub /\ queues[q].st = "none" /\ HasFree(qheap, Len(r) + 1)
    /\ qheap' = QueueRangeInit(QueueCreateNode(qheap, 0), Allocate(qheap), r)
    /\ queues' = [queues EXCEPT ![q] = [st |-> "live", m_head |-> Allocate(qheap),
                                        m_size |-> 0]]
    /\ last' = OpWith(name, q, Void, r)
    /\ UNCHANGED <<ub, outsideQueue>>

\* queue(Iterator first, Sentinel last) and queue(std::from_range, range):
\* queue{} and then __M_range_init(first, last).
QueueRangeCtor(q, r) == QueueRangeCtorEffect(q, r, "queue_range")

\* queue(std::initializer_list<Type>): delegates to queue(first, last).
QueueInitListCtor(q, r) == QueueRangeCtorEffect(q, r, "queue_init_list")

RECURSIVE QueueCloneLoop(_, _, _, _, _)
\* The loop of __M_clone: while (source != end) a copy of source is linked
\* before cursor.
QueueCloneLoop(h, cursor, source, end, fuel) ==
    IF source = end \/ fuel = 0
    THEN h
    ELSE QueueCloneLoop(QueueNodePushBack(QueueCreateNode(h, h[source].data),
                                          cursor, Allocate(h)),
                        cursor, h[source].next, end, fuel - 1)

\* __M_clone(source) for a non-null source: a new sentinel, followed by
\* copies of the nodes from source up to source->m_prev.
QueueClone(h, source) ==
    LET cursor == Allocate(h)
    IN  [h |-> QueueCloneLoop(QueueCreateNode(h, 0), cursor, source,
                              h[source].prev, MaxNodes),
         node |-> cursor]

\* queue(const queue &outer): m_head = __M_clone(outer.m_head->m_next);
\* m_size = outer.m_size.
QueueCopyCtor(q, src) ==
    /\ ~ub /\ q # src /\ queues[q].st = "none" /\ queues[src].st = "live"
    /\ HasFree(qheap, Len(RingNodes(qheap, queues[src].m_head)) + 1)
    /\ LET c == QueueClone(qheap, qheap[queues[src].m_head].next)
       IN  /\ qheap' = c.h
           /\ queues' = [queues EXCEPT ![q] = [st |-> "live", m_head |-> c.node,
                                               m_size |-> queues[src].m_size]]
    /\ last' = Op("queue_copy", q, Void)
    /\ UNCHANGED <<ub, outsideQueue>>

\* queue(queue &&outer): m_head = std::exchange(outer.m_head,
\* __M_create_node()); m_size = std::exchange(outer.m_size, 0UL).
QueueMoveCtor(q, src) ==
    /\ ~ub /\ q # src /\ queues[q].st = "none" /\ queues[src].st = "live"
    /\ HasFree(qheap, 1)
    /\ qheap' = QueueCreateNode(qheap, 0)
    /\ queues' = [queues EXCEPT ![q] = [queues[src] EXCEPT !.st = "live"],
                                ![src].m_head = Allocate(qheap),
                                ![src].m_size = 0]
    /\ last' = Op("queue_move", q, Void)
    /\ UNCHANGED <<ub, outsideQueue>>

\* queue::size(): m_size.
QueueSize(q) ==
    /\ ~ub /\ queues[q].st = "live"
    /\ last' = Op("queue_size", q, SizeOf(queues[q].m_size))
    /\ UNCHANGED <<ub, queueVars, outsideQueue>>

\* swap(lhs, rhs): std::swap of m_head and of m_size.
QueueSwap(l, r) ==
    /\ ~ub /\ queues[l].st = "live" /\ queues[r].st = "live"
    /\ queues' = [queues EXCEPT ![l].m_head = queues[r].m_head,
                                ![l].m_size = queues[r].m_size,
                                ![r].m_head = queues[l].m_head,
                                ![r].m_size = queues[l].m_size]
    /\ last' = Op("queue_swap", l, Void)
    /\ UNCHANGED <<qheap, ub, outsideQueue>>

-----------------------------------------------------------------------------
(* stack *)

\* stack<Type> is instantiated with Type = int; allocator_type is
\* std::allocator<Node>, so operator= (const stack &) takes
\* __M_copy_assign(std::false_type) and operator= (stack &&) takes
\* __M_move_assign(std::true_type).

StackFreedCell == [st |-> "freed", data |-> 0, next |-> Null]

RECURSIVE StackChain(_, _, _)
\* The nodes visited by following m_next from n until nullptr.
StackChain(h, n, fuel) ==
    IF fuel = 0 \/ ~Live(h, n)
    THEN <<>>
    ELSE <<n>> \o StackChain(h, h[n].next, fuel - 1)

\* The nodes reachable from m_head, the top first.
StackNodes(h, head) == StackChain(h, head, MaxNodes)

\* The elements from the top down.
StackSeq(h, head) ==
    LET ns == StackNodes(h, head) IN [i \in 1..Len(ns) |-> h[ns[i]].data]

\* The allocated cells: stack s's chain, stack t's chain, then the cells no
\* stack reaches.
StackCellOrder(h, ss) ==
    LET reached == AppendNew(StackNodes(h, ss["s"].m_head),
                             StackNodes(h, ss["t"].m_head))
    IN  reached \o Ascending({n \in NodeIds : Allocated(h, n)} \ Range(reached))

StackSettleHeap(h, order) ==
    [i \in NodeIds |->
        IF i <= Len(order)
        THEN [st |-> h[order[i]].st, data |-> h[order[i]].data,
              next |-> Renamed(order, h[order[i]].next)]
        ELSE StackUnusedCell]

StackSettleObjects(ss, order) ==
    [s \in Stacks |-> [ss[s] EXCEPT !.m_head = Renamed(order, ss[s].m_head)]]

\* The state in which a stack operation returns: arena h and stack objects
\* ss, up to the names of the cells, and the record of the operation.
StackReturn(h, ss, name, s, res, arg) ==
    LET order == StackCellOrder(h, ss)
    IN  /\ sheap' = StackSettleHeap(h, order)
        /\ stacks' = StackSettleObjects(ss, order)
        /\ last' = OpWith(name, s, res, arg)
        /\ UNCHANGED <<ub, outsideStack>>

StackIsLive(s) == stacks[s].st = "live"

\* __M_create_node(data, next): allocate one cell and construct
\* Node{data, next} in it.
StackCreateNode(h, x, next) ==
    [h EXCEPT ![Allocate(h)] = [st |-> "live", data |-> x, next |-> next]]

\* push without the new node becoming m_head.
StackPushKeepsHead(h, o, x) ==
    [h |-> StackCreateNode(h, x, o.m_head),
     o |-> [o EXCEPT !.m_size = o.m_size + 1]]

\* push(data) and emplace(args...) on the stack object o:
\* m_head = __M_create_node(data, m_head); m_size = m_size + 1.
StackPushOn(h, o, x) ==
    [h |-> StackCreateNode(h, x, o.m_head),
     o |-> [o EXCEPT !.m_head = Allocate(h), !.m_size = o.m_size + 1]]

\* pop that decrements m_size whether or not there is a node.
StackPopUnguarded(h, o) ==
    IF o.m_head # Null
    THEN [h |-> [h EXCEPT ![o.m_head] = StackFreedCell],
          o |-> [o EXCEPT !.m_head = h[o.m_head].next, !.m_size = o.m_size - 1]]
    ELSE [h |-> h, o |-> [o EXCEPT !.m_size = o.m_size - 1]]

\* pop() on the stack object o: if m_head is not null, m_head = m_head->m_next,
\* the old head is destroyed and deallocated and m_size = m_size - 1.
StackPopOn(h, o) ==
    IF o.m_head # Null
    THEN [h |-> [h EXCEPT ![o.m_head] = StackFreedCell],
          o |-> [o EXCEPT !.m_head = h[o.m_head].next, !.m_size = o.m_size - 1]]
    ELSE [h |-> h, o |-> o]

RECURSIVE StackClearLoop(_, _, _)
\* clear(): while (m_head != nullptr) pop().
StackClearLoop(h, o, fuel) ==
    IF o.m_head = Null \/ fuel = 0
    THEN [h |-> h, o |-> o]
    ELSE LET p == StackPopOn(h, o) IN StackClearLoop(p.h, p.o, fuel - 1)

StackClearOn(h, o) == StackClearLoop(h, o, MaxNodes)

RECURSIVE StackCloneLoop(_, _, _, _)
\* The loop of __M_clone: a copy of each further source node is linked after
\* cursor.
StackCloneLoop(h, cursor, source, fuel) ==
    IF source = Null \/ fuel = 0
    THEN h
    ELSE LET node == Allocate(h)
             h1 == StackCreateNode(h, h[source].data, Null)
         IN  StackCloneLoop([h1 EXCEPT ![cursor].next = node], node,
                            h[source].next, fuel - 1)

\* __M_clone(source) called on the stack object o: clear() and nullptr for a
\* null source, else a copy of the chain of source, in the same order.
StackClone(h, o, source) ==
    IF source = Null
    THEN LET c == StackClearOn(h, o) IN [h |-> c.h, o |-> c.o, node |-> Null]
    ELSE LET copy == Allocate(h)
             h1 == StackCreateNode(h, h[source].data, Null)
         IN  [h |-> StackCloneLoop(h1, copy, h[source].next, MaxNodes),
              o |-> o, node |-> copy]

RECURSIVE StackAssignCopyLoop(_, _, _, _, _)
\* The first loop of __M_assign: count values are copied over the nodes
\* from cursor on; temp is the last node written.
StackAssignCopyLoop(h, cursor, temp, source, count) ==
    IF count = 0
    THEN [h |-> h, cursor |-> cursor, temp |-> temp, source |-> source]
    ELSE StackAssignCopyLoop([h EXCEPT ![cursor].data = h[source].data],
                             h[cursor].next, cursor, h[source].next, count - 1)

\* The second loop of __M_assign without destroy and deallocate.
StackAssignTrimNone(h, cursor, count) == h

RECURSIVE StackAssignTrimLoop(_, _, _)
\* The second loop of __M_assign: count nodes from cursor on are destroyed
\* and deallocated.
StackAssignTrimLoop(h, cursor, count) ==
    IF count = 0
    THEN h
    ELSE StackAssignTrimLoop([h EXCEPT ![cursor] = StackFreedCell],
                             h[cursor].next, count - 1)

RECURSIVE StackAssignGrowLoop(_, _, _, _)
\* The third loop of __M_assign: count copies of the nodes from source on
\* are linked after temp.
StackAssignGrowLoop(h, temp, source, count) ==
    IF count = 0
    THEN h
    ELSE LET node == Allocate(h)
             h1 == StackCreateNode(h, h[source].data, Null)
         IN  StackAssignGrowLoop([h1 EXCEPT ![temp].next = node], node,
                                 h[source].next, count - 1)

\* __M_assign(source, size) on the stack object o.
StackAssign(h, o, source, size) ==
    IF source = Null
    THEN StackClearOn(h, o)
    ELSE IF o.m_head = Null
    THEN LET c == StackClone(h, o, source)
         IN  [h |-> c.h, o |-> [c.o EXCEPT !.m_head = c.node]]
    ELSE LET min == IF o.m_size < size THEN o.m_size ELSE size
             c == StackAssignCopyLoop(h, o.m_head, Null, source, min)
         IN  IF o.m_size > size
             THEN [h |-> StackAssignTrimLoop([c.h EXCEPT ![c.temp].next = Null],
                                             c.cursor, o.m_size - size),
                   o |-> o]
             ELSE IF o.m_size < size
             THEN [h |-> StackAssignGrowLoop(c.h, c.temp, c.source,
                                             size - o.m_size),
                   o |-> o]
             ELSE [h |-> c.h, o |-> o]

\* stack(): m_head{nullptr}, m_size{0UL}.
StackCtor(s) ==
    /\ ~ub /\ stacks[s].st = "none"
    /\ StackReturn(sheap, [stacks EXCEPT ![s] = [NoStack EXCEPT !.st = "live"]],
                   "stack", s, Void, <<>>)

RECURSIVE StackRangeLoop(_, _, _)
\* The loop of stack(begin, end): push(*begin) for each element of the range.
StackRangeLoop(h, o, r) ==
    IF r = <<>>
    THEN [h |-> h, o |-> o]
    ELSE LET p == StackPushOn(h, o, Head(r)) IN StackRangeLoop(p.h, p.o, Tail(r))

StackRangeCtorEffect(s, r, name) ==
    /\ ~ub /\ stacks[s].st = "none" /\ HasFree(sheap, Len(r))
    /\ LET c == StackRangeLoop(sheap, [NoStack EXCEPT !.st = "live"], r)
       IN  StackReturn(c.h, [stacks EXCEPT ![s] = c.o], name, s, Void, r)

\* stack(Iterator begin, Sentinel end) and stack(std::from_range, range).
StackRangeCtor(s, r) == StackRangeCtorEffect(s, r, "stack_range")

\* stack(std::initializer_list<Type>): delegates to stack(begin, end).
StackInitListCtor(s, r) == StackRangeCtorEffect(s, r, "stack_init_list")

\* stack(const stack &outer): m_head = __M_clone(outer.m_head);
\* m_size = outer.m_size.
StackCopyCtor(s, src) ==
    /\ ~ub /\ s # src /\ stacks[s].st = "none" /\ StackIsLive(src)
    /\ HasFree(sheap, Len(StackNodes(sheap, stacks[src].m_head)))
    /\ LET c == StackClone(sheap, [NoStack EXCEPT !.st = "live"],
                           stacks[src].m_head)
           o == [c.o EXCEPT !.m_head = c.node, !.m_size = stacks[src].m_size]
       IN  StackReturn(c.h, [stacks EXCEPT ![s] = o], "stack_copy", s, Void, <<>>)

\* The move constructor without outer.m_size reset to 0.
StackMoveCtorKeepsSize(s, src) ==
    /\ ~ub /\ s # src /\ stacks[s].st = "none" /\ StackIsLive(src)
    /\ StackReturn(sheap,
                   [stacks EXCEPT ![s] = [stacks[src] EXCEPT !.st = "live"],
                                  ![src].m_head = Null],
                   "stack_move", s, Void, <<>>)

\* stack(stack &&outer): m_head = std::exchange(outer.m_head, nullptr);
\* m_size = std::exchange(outer.m_size, 0UL).
StackMoveCtor(s, src) ==
    /\ ~ub /\ s # src /\ stacks[s].st = "none" /\ StackIsLive(src)
    /\ StackReturn(sheap,
                   [stacks EXCEPT ![s] = [stacks[src] EXCEPT !.st = "live"],
                                  ![src].m_head = Null, ![src].m_size = 0],
                   "stack_move", s, Void, <<>>)

\* push(data).
StackPush(s, x) ==
    /\ ~ub /\ StackIsLive(s) /\ HasFree(sheap, 1)
    /\ LET p == StackPushOn(sheap, stacks[s], x)
       IN  StackReturn(p.h, [stacks EXCEPT ![s] = p.o], "stack_push", s, Void, <<x>>)

\* emplace(args...): the node is constructed in place from the arguments.
StackEmplace(s, x) ==
    /\ ~ub /\ StackIsLive(s) /\ HasFree(sheap, 1)
    /\ LET p == StackPushOn(sheap, stacks[s], x)
       IN  StackReturn(p.h, [stacks EXCEPT ![s] = p.o], "stack_emplace", s, Void,
                       <<x>>)

\* pop().
StackPop(s) ==
    /\ ~ub /\ StackIsLive(s)
    /\ LET p == StackPopOn(sheap, stacks[s])
       IN  StackReturn(p.h, [stacks EXCEPT ![s] = p.o], "stack_pop", s, Void, <<>>)

\* clear().
StackClear(s) ==
    /\ ~ub /\ StackIsLive(s)
    /\ LET c == StackClearOn(sheap, stacks[s])
       IN  StackReturn(c.h, [stacks EXCEPT ![s] = c.o], "stack_clear", s, Void, <<>>)

\* A member function that changes nothing and returns res.
StackObserved(name, s, res) ==
    /\ last' = Op(name, s, res)
    /\ UNCHANGED <<ub, stackVars, outsideStack>>

\* What top() returns: std::nullopt if m_head is null, else a reference to
\* m_head->m_data.
StackTopResult(h, o) ==
    IF o.m_head = Null THEN Nullopt ELSE Some(h[o.m_head].data)

\* top().
StackTop(s) ==
    /\ ~ub /\ StackIsLive(s)
    /\ StackObserved("stack_top", s, StackTopResult(sheap, stacks[s]))

\* What empty() returns: m_head == nullptr.
StackIsEmpty(o) == o.m_head = Null

\* empty().
StackEmpty(s) ==
    /\ ~ub /\ StackIsLive(s)
    /\ StackObserved("stack_empty", s, Bool(StackIsEmpty(stacks[s])))

\* size(): m_size.
StackSize(s) ==
    /\ ~ub /\ StackIsLive(s)
    /\ StackObserved("stack_size", s, SizeOf(stacks[s].m_size))

\* swap(lhs, rhs): std::swap of m_head and of m_size.
StackSwap(l, r) ==
    /\ ~ub /\ StackIsLive(l) /\ StackIsLive(r)
    /\ StackReturn(sheap,
                   [stacks EXCEPT ![l].m_head = stacks[r].m_head,
                                  ![l].m_size = stacks[r].m_size,
                                  ![r].m_head = stacks[l].m_head,
                                  ![r].m_size = stacks[l].m_size],
                   "stack_swap", l, Void, <<>>)

\* operator= (const stack &rhs): nothing for self-assignment, else
\* __M_copy_assign(rhs, std::false_type): clear(); __M_assign(rhs.m_head,
\* rhs.m_size); m_size = rhs.m_size.
StackCopyAssign(s, src) ==
    /\ ~ub /\ StackIsLive(s) /\ StackIsLive(src)
    /\ IF s = src
       THEN StackReturn(sheap, stacks, "stack_copy_assign", s, Void, <<>>)
       ELSE /\ HasFree(StackClearOn(sheap, stacks[s]).h,
                       Len(StackNodes(sheap, stacks[src].m_head)))
            /\ LET c == StackClearOn(sheap, stacks[s])
                   a == StackAssign(c.h, c.o, stacks[src].m_head, stacks[src].m_size)
               IN  StackReturn(a.h,
                               [stacks EXCEPT ![s] = [a.o EXCEPT !.m_size =
                                                         stacks[src].m_size]],
                               "stack_copy_assign", s, Void, <<>>)

\* __M_copy_assign(outer, std::true_type) with an is_always_equal allocator
\* (std::allocator<Node>: the if constexpr block is discarded): __M_assign(
\* outer.m_head, outer.m_size) over the nodes this stack has; m_size =
\* outer.m_size.  The size the stack had is kept in the record.
StackCopyAssignPropagate(s, src) ==
    /\ ~ub /\ StackIsLive(s) /\ StackIsLive(src) /\ s # src
    /\ HasFree(sheap, IF stacks[src].m_size > stacks[s].m_size
                      THEN stacks[src].m_size - stacks[s].m_size ELSE 0)
    /\ LET a == StackAssign(sheap, stacks[s], stacks[src].m_head, stacks[src].m_size)
       IN  StackReturn(a.h,
                       [stacks EXCEPT ![s] = [a.o EXCEPT !.m_size =
                                                 stacks[src].m_size]],
                       "stack_copy_assign_propagate", s, Void,
                       <<stacks[s].m_size>>)

\* operator= (stack &&rhs): nothing for self-assignment, else
\* __M_move_assign(rhs, std::true_type): clear(); m_head =
\* std::exchange(rhs.m_head, nullptr); m_size = std::exchange(rhs.m_size, 0L).
StackMoveAssign(s, src) ==
    /\ ~ub /\ StackIsLive(s) /\ StackIsLive(src)
    /\ IF s = src
       THEN StackReturn(sheap, stacks, "stack_move_assign", s, Void, <<>>)
       ELSE LET c == StackClearOn(sheap, stacks[s])
            IN  StackReturn(c.h,
                            [stacks EXCEPT ![s] = [c.o EXCEPT
                                                      !.m_head = stacks[src].m_head,
                                                      !.m_size = stacks[src].m_size],
                                           ![src].m_head = Null,
                                           ![src].m_size = 0],
                            "stack_move_assign", s, Void, <<>>)

\* ~stack(): clear().
StackDestroy(s) ==
    /\ ~ub /\ StackIsLive(s)
    /\ LET c == StackClearOn(sheap, stacks[s])
       IN  StackReturn(c.h, [stacks EXCEPT ![s] = [c.o EXCEPT !.st = "destroyed"]],
                       "stack_destroy", s, Void, <<>>)

-----------------------------------------------------------------------------
(* binary_search_tree *)

\* binary_search_tree<Type> is instantiated with Type = int.  The cells of
\* its nodes keep their names: a deallocated cell stays "freed", and a
\* pointer to it is a dangling pointer.

TreeFreedCell ==
    [st |-> "freed", data |-> 0, left |-> Null, right |-> Null, parent |-> Null]

\* __M_create_node(data): allocate one cell and construct Node{data} in it,
\* m_left, m_right and m_parent null.
TreeCreateNode(h, x) ==
    [h EXCEPT ![Allocate(h)] = [st |-> "live", data |-> x, left |-> Null,
                                right |-> Null, parent |-> Null]]

\* A call on the tree that dereferences a null or dangling pointer.
TreeUndefined(name, arg, kind) ==
    /\ ub' = TRUE
    /\ \E r \in UBResults(kind) : last' = OpWith(name, "bst", r, arg)
    /\ UNCHANGED <<treeVars, outsideTree>>

\* A call on the tree that returns res with the nodes h and the object t.
TreeReturn(h, t, name, res, arg) ==
    /\ theap' = h
    /\ tree' = t
    /\ last' = OpWith(name, "bst", res, arg)
    /\ UNCHANGED <<ub, outsideTree>>

\* binary_search_tree(): m_root{nullptr}, m_size{0UL}.
TreeCtor ==
    /\ ~ub /\ tree.st = "none"
    /\ TreeReturn(theap, [NoTree EXCEPT !.st = "live"], "tree", Void, <<>>)

RECURSIVE TreeInsertWalk(_, _, _, _, _)
\* The loop of __M_insert: descend left for data <= current->m_data, else
\* right, until current is null; the last node visited is the parent.
\* Invalid when the descent dereferences a dangling pointer.
TreeInsertWalk(h, current, parent, x, fuel) ==
    IF current = Null \/ fuel = 0
    THEN parent
    ELSE IF ~Live(h, current)
    THEN Invalid
    ELSE TreeInsertWalk(h, IF x <= h[current].data THEN h[current].left
                                                   ELSE h[current].right,
                        current, x, fuel - 1)

\* insert(data) and emplace(args...): __M_insert(__M_create_node(data)).  The
\* node becomes the root of an empty tree, else the left child of the parent
\* found by the descent if data <= parent->m_data and its right child
\* otherwise; m_size = m_size + 1.  (parent is null after the loop only if
\* m_root is null, which has returned before.)
TreeInsertEffect(x, name) ==
    /\ ~ub /\ tree.st = "live" /\ HasFree(theap, 1)
    /\ LET node == Allocate(theap)
           h1 == TreeCreateNode(theap, x)
           parent == TreeInsertWalk(h1, tree.m_root, Null, x, MaxNodes)
       IN  IF tree.m_root = Null
           THEN TreeReturn(h1, [tree EXCEPT !.m_root = node, !.m_size = @ + 1],
                           name, Void, <<x>>)
           ELSE IF parent = Invalid
           THEN TreeUndefined(name, <<x>>, "void")
           ELSE TreeReturn(IF x <= h1[parent].data
                           THEN [h1 EXCEPT ![node].parent = parent,
                                           ![parent].left = node]
                           ELSE [h1 EXCEPT ![node].parent = parent,
                                           ![parent].right = node],
                           [tree EXCEPT !.m_size = @ + 1], name, Void, <<x>>)

TreeInsert(x) == TreeInsertEffect(x, "tree_insert")

TreeEmplace(x) == TreeInsertEffect(x, "tree_emplace")

RECURSIVE TreeSearchLoop(_, _, _, _)
\* __M_search(current, key): the loop runs while current is not null and
\* key != current->m_data, so the test key == current->m_data in its body
\* never holds; after the loop the function returns std::nullopt.  Crash
\* when the descent dereferences a dangling pointer.
TreeSearchLoop(h, current, key, fuel) ==
    IF current = Null \/ fuel = 0
    THEN Nullopt
    ELSE IF ~Live(h, current)
    THEN Crash
    ELSE IF key = h[current].data
    THEN Nullopt
    ELSE TreeSearchLoop(h, IF key < h[current].data THEN h[current].left
                                                    ELSE h[current].right,
                        key, fuel - 1)

\* search(key): __M_search(m_root, key).
TreeSearch(key) ==
    /\ ~ub /\ tree.st = "live"
    /\ LET res == TreeSearchLoop(theap, tree.m_root, key, MaxNodes)
       IN  IF res = Crash
           THEN TreeUndefined("tree_search", <<key>>, "optional")
           ELSE TreeReturn(theap, tree, "tree_search", res, <<key>>)

RECURSIVE TreeFind(_, _, _, _)
\* The first loop of remove: the node whose m_data equals key, or null.
\* Invalid when the descent dereferences a dangling pointer.
TreeFind(h, current, key, fuel) ==
    IF current = Null \/ fuel = 0
    THEN Null
    ELSE IF ~Live(h, current)
    THEN Invalid
    ELSE IF key < h[current].data
    THEN TreeFind(h, h[current].left, key, fuel - 1)
    ELSE IF key > h[current].data
    THEN TreeFind(h, h[current].right, key, fuel - 1)
    ELSE current

\* remove(key).  With current the node found and parent = current->m_parent:
\*  - m_left null and m_right not null: the parent's pointer to current is
\*    set to null and current is deallocated;
\*  - else m_left or m_right not null (so m_left is not null): parent->m_left
\*    = current->m_left, current->m_left->m_parent = parent and current is
\*    deallocated;
\*  - else (a leaf) nothing: the third test, m_left and m_right both not
\*    null, cannot hold once the second has failed.
\* parent is dereferenced without a test in the first two cases.
TreeRemove(key) ==
    /\ ~ub /\ tree.st = "live"
    /\ LET current == TreeFind(theap, tree.m_root, key, MaxNodes)
           parent == theap[current].parent
           left == theap[current].left
           right == theap[current].right
           smaller == [tree EXCEPT !.m_size = @ - 1]
       IN  IF current = Invalid
           THEN TreeUndefined("tree_remove", <<key>>, "void")
           ELSE IF current = Null
           THEN TreeReturn(theap, tree, "tree_remove", Void, <<key>>)
           ELSE IF left = Null /\ right # Null
           THEN IF ~Live(theap, parent)
                THEN TreeUndefined("tree_remove", <<key>>, "void")
                ELSE TreeReturn([theap EXCEPT
                                    ![parent] = IF @.left = current
                                                THEN [@ EXCEPT !.left = Null]
                                                ELSE [@ EXCEPT !.right = Null],
                                    ![current] = TreeFreedCell],
                                smaller, "tree_remove", Void, <<key>>)
           ELSE IF left # Null \/ right # Null
           THEN IF ~Live(theap, parent) \/ ~Live(theap, left)
                THEN TreeUndefined("tree_remove", <<key>>, "void")
                ELSE TreeReturn([theap EXCEPT ![parent].left = left,
                                              ![left].parent = parent,
                                              ![current] = TreeFreedCell],
                                smaller, "tree_remove", Void, <<key>>)
           ELSE TreeReturn(theap, tree, "tree_remove", Void, <<key>>)

RECURSIVE TreeClearLoopNoRotate(_, _, _, _)
\* The loop of clear() without the rotation: a node with a left child is
\* left behind.
TreeClearLoopNoRotate(h, current, turns, fuel) ==
    IF current = Null
    THEN [h |-> h, end |-> "done", turns |-> turns]
    ELSE IF ~Live(h, current)
    THEN [h |-> h, end |-> "dangling", turns |-> turns]
    ELSE IF fuel = 0
    THEN [h |-> h, end |-> "running", turns |-> turns]
    ELSE IF h[current].left = Null
    THEN TreeClearLoopNoRotate([h EXCEPT ![current] = TreeFreedCell],
                               h[current].right, turns, fuel - 1)
    ELSE TreeClearLoopNoRotate(h, h[current].left, turns + 1, fuel - 1)

RECURSIVE TreeClearLoop(_, _, _, _)
\* The loop of clear(): a node without a left child is destroyed and
\* deallocated and the loop goes on with its right child; else the left child
\* temp is rotated up (current->m_left = temp->m_right, temp->m_right =
\* current) and the loop goes on with temp.  end is "done" when current is
\* null, "dangling" when a node that is not live is dereferenced, and
\* "running" when the loop has not ended after fuel rounds; turns counts the
\* rotations.
TreeClearLoop(h, current, turns, fuel) ==
    IF current = Null
    THEN [h |-> h, end |-> "done", turns |-> turns]
    ELSE IF ~Live(h, current)
    THEN [h |-> h, end |-> "dangling", turns |-> turns]
    ELSE IF fuel = 0
    THEN [h |-> h, end |-> "running", turns |-> turns]
    ELSE IF h[current].left = Null
    THEN TreeClearLoop([h EXCEPT ![current] = TreeFreedCell],
                       h[current].right, turns, fuel - 1)
    ELSE LET temp == h[current].left
         IN  IF ~Live(h, temp)
             THEN [h |-> h, end |-> "dangling", turns |-> turns]
             ELSE TreeClearLoop([h EXCEPT ![current].left = h[temp].right,
                                          ![temp].right = current],
                                temp, turns + 1, fuel - 1)

\* A call that does not return: no later call runs.
TreeDiverges(h, name, arg) ==
    /\ theap' = h
    /\ ub' = TRUE
    /\ last' = OpWith(name, "bst", Diverges, arg)
    /\ UNCHANGED <<tree, outsideTree>>

\* clear(): the loop from m_root, then m_root = nullptr and m_size = 0.  A
\* tree of n nodes takes at most 2n rounds.  The record keeps the number of
\* rotations.
TreeClear ==
    /\ ~ub /\ tree.st = "live"
    /\ LET c == TreeClearLoop(theap, tree.m_root, 0, 2 * MaxNodes)
       IN  CASE c.end = "done" ->
                  TreeReturn(c.h, [tree EXCEPT !.m_root = Null, !.m_size = 0],
                             "tree_clear", Void, <<c.turns>>)
             [] c.end = "dangling" ->
                  TreeUndefined("tree_clear", <<c.turns>>, "void")
             [] OTHER -> TreeDiverges(c.h, "tree_clear", <<c.turns>>)

\* The nodes a print function can dereference in h.
TreeLiveIn(h, n) == n \in DOMAIN h /\ h[n].st = "live"

RECURSIVE TreeRightmost(_, _, _, _)
\* while ((temp->m_right != nullptr) && (temp->m_right != current)) temp =
\* temp->m_right: the node the loop ends at.
TreeRightmost(h, temp, current, fuel) ==
    IF ~TreeLiveIn(h, temp)
    THEN [node |-> temp, end |-> "dangling"]
    ELSE IF h[temp].right = Null \/ h[temp].right = current
    THEN [node |-> temp, end |-> "done"]
    ELSE IF fuel = 0
    THEN [node |-> temp, end |-> "running"]
    ELSE TreeRightmost(h, h[temp].right, current, fuel - 1)

\* What a print function has done when it stops at a node: links h, output
\* out, and how it ended.
TreeWalked(h, out, end) == [h |-> h, out |-> out, end |-> end]

RECURSIVE TreeInorderLoopKeepsThread(_, _, _, _)
\* The loop of print_inorder without the unlinking of the thread.
TreeInorderLoopKeepsThread(h, current, out, fuel) ==
    IF current = Null
    THEN TreeWalked(h, out, "done")
    ELSE IF ~TreeLiveIn(h, current)
    THEN TreeWalked(h, out, "dangling")
    ELSE IF fuel = 0
    THEN TreeWalked(h, out, "running")
    ELSE IF h[current].left = Null
    THEN TreeInorderLoopKeepsThread(h, h[current].right,
                                    Append(out, h[current].data), fuel - 1)
    ELSE LET t == TreeRightmost(h, h[current].left, current, MaxNodes + 1)
         IN  IF t.end # "done"
             THEN TreeWalked(h, out, t.end)
             ELSE IF h[t.node].right # Null
             THEN TreeInorderLoopKeepsThread(h, h[current].right,
                                             Append(out, h[current].data),
                                             fuel - 1)
             ELSE TreeInorderLoopKeepsThread([h EXCEPT ![t.node].right = current],
                                             h[current].left, out, fuel - 1)

RECURSIVE TreeInorderLoop(_, _, _, _)
\* The loop of print_inorder.  A node without a left child is printed and the
\* loop goes right.  Else temp is the rightmost node of the left subtree: if
\* temp->m_right is not null it is the thread to current, so current is
\* printed, the thread is removed and the loop goes right; else the thread
\* temp->m_right = current is set and the loop goes left.
TreeInorderLoop(h, current, out, fuel) ==
    IF current = Null
    THEN TreeWalked(h, out, "done")
    ELSE IF ~TreeLiveIn(h, current)
    THEN TreeWalked(h, out, "dangling")
    ELSE IF fuel = 0
    THEN TreeWalked(h, out, "running")
    ELSE IF h[current].left = Null
    THEN TreeInorderLoop(h, h[current].right, Append(out, h[current].data),
                         fuel - 1)
    ELSE LET t == TreeRightmost(h, h[current].left, current, MaxNodes + 1)
         IN  IF t.end # "done"
             THEN TreeWalked(h, out, t.end)
             ELSE IF h[t.node].right # Null
             THEN TreeInorderLoop([h EXCEPT ![t.node].right = Null],
                                  h[current].right,
                                  Append(out, h[current].data), fuel - 1)
             ELSE TreeInorderLoop([h EXCEPT ![t.node].right = current],
                                  h[current].left, out, fuel - 1)

RECURSIVE TreePreorderLoop(_, _, _, _)
\* The loop of print_preorder.  A node without a left child is printed and
\* the loop goes right.  Else temp is the rightmost node of the left subtree:
\* if temp->m_right is not current, current is printed, the thread is set and
\* the loop goes left; else the thread is removed and the loop goes right.
TreePreorderLoop(h, current, out, fuel) ==
    IF current = Null
    THEN TreeWalked(h, out, "done")
    ELSE IF ~TreeLiveIn(h, current)
    THEN TreeWalked(h, out, "dangling")
    ELSE IF fuel = 0
    THEN TreeWalked(h, out, "running")
    ELSE IF h[current].left = Null
    THEN TreePreorderLoop(h, h[current].right, Append(out, h[current].data),
                          fuel - 1)
    ELSE LET t == TreeRightmost(h, h[current].left, current, MaxNodes + 1)
         IN  IF t.end # "done"
             THEN TreeWalked(h, out, t.end)
             ELSE IF h[t.node].right # current
             THEN TreePreorderLoop([h EXCEPT ![t.node].right = current],
                                   h[current].left,
                                   Append(out, h[current].data), fuel - 1)
             ELSE TreePreorderLoop([h EXCEPT ![t.node].right = Null],
                                   h[current].right, out, fuel - 1)

RECURSIVE TreeTurnPath(_, _, _, _, _, _, _)
\* The two inner loops of print_postorder: while (middle != current) { back =
\* middle->m_right; middle->m_right = parent; parent = middle; middle = back;
\* }, the second one printing middle->m_data first (emit).
TreeTurnPath(h, parent, middle, current, out, emit, fuel) ==
    IF middle = current
    THEN TreeWalked(h, out, "done")
    ELSE IF ~TreeLiveIn(h, middle)
    THEN TreeWalked(h, out, "dangling")
    ELSE IF fuel = 0
    THEN TreeWalked(h, out, "running")
    ELSE TreeTurnPath([h EXCEPT ![middle].right = parent], middle,
                      h[middle].right, current,
                      IF emit THEN Append(out, h[middle].data) ELSE out,
                      emit, fuel - 1)

RECURSIVE TreePostorderLoop(_, _, _, _)
\* The loop of print_postorder, which starts at a dummy node whose left
\* child is the root.  A node without a left child: the loop goes right.
\* Else temp is the rightmost node of the left subtree: if temp->m_right is
\* not current the thread is set and the loop goes left; else the path from
\* current->m_left to temp is turned round, printed from temp back while it
\* is turned again, the thread is removed and the loop goes right.
TreePostorderLoop(h, current, out, fuel) ==
    IF current = Null
    THEN TreeWalked(h, out, "done")
    ELSE IF ~TreeLiveIn(h, current)
    THEN TreeWalked(h, out, "dangling")
    ELSE IF fuel = 0
    THEN TreeWalked(h, out, "running")
    ELSE IF h[current].left = Null
    THEN TreePostorderLoop(h, h[current].right, out, fuel - 1)
    ELSE LET t == TreeRightmost(h, h[current].left, current, MaxNodes + 1)
         IN  IF t.end # "done"
             THEN TreeWalked(h, out, t.end)
             ELSE IF h[t.node].right # current
             THEN TreePostorderLoop([h EXCEPT ![t.node].right = current],
                                    h[current].left, out, fuel - 1)
             ELSE LET turned == TreeTurnPath(h, current, h[current].left,
                                             current, out, FALSE, MaxNodes + 1)
                      printed == TreeTurnPath(turned.h, current, t.node,
                                              current, out, TRUE, MaxNodes + 1)
                  IN  IF turned.end # "done"
                      THEN turned
                      ELSE IF printed.end # "done"
                      THEN printed
                      ELSE TreePostorderLoop(
                               [printed.h EXCEPT ![t.node].right = Null],
                               printed.h[current].right, printed.out, fuel - 1)

\* The return of a print function that has walked w.
TreePrinted(w, name) ==
    CASE w.end = "done" ->
           TreeReturn([n \in NodeIds |-> w.h[n]], tree, name, Void, w.out)
      [] w.end = "dangling" -> TreeUndefined(name, w.out, "void")
      [] OTHER -> TreeDiverges([n \in NodeIds |-> w.h[n]], name, w.out)

\* print_inorder(tree): nothing for a null root, else the loop from m_root.
\* The record keeps what was printed.
TreePrintInorder ==
    /\ ~ub /\ tree.st = "live"
    /\ TreePrinted(TreeInorderLoop(theap, tree.m_root, <<>>, 3 * MaxNodes),
                   "print_inorder")

\* print_preorder(tree): nothing for a null root, else the loop from m_root.
TreePrintPreorder ==
    /\ ~ub /\ tree.st = "live"
    /\ TreePrinted(TreePreorderLoop(theap, tree.m_root, <<>>, 3 * MaxNodes),
                   "print_preorder")

\* The dummy node of print_postorder, outside the nodes of the tree.
Dummy == MaxNodes + 1

\* print_postorder(tree): nothing for a null root, else dummy = new Node(),
\* dummy->m_left = m_root, the loop from dummy, delete dummy.
TreePrintPostorder ==
    /\ ~ub /\ tree.st = "live"
    /\ IF tree.m_root = Null
       THEN TreeReturn(theap, tree, "print_postorder", Void, <<>>)
       ELSE LET h == [n \in NodeIds \cup {Dummy} |->
                        IF n = Dummy
                        THEN [st |-> "live", data |-> 0, left |-> tree.m_root,
                              right |-> Null, parent |-> Null]
                        ELSE theap[n]]
            IN  TreePrinted(TreePostorderLoop(h, Dummy, <<>>, 3 * MaxNodes + 3),
                            "print_postorder")

RECURSIVE TreeReach(_, _, _)
\* The nodes reachable from n by m_left and m_right.
TreeReach(h, n, fuel) ==
    IF fuel = 0 \/ ~Live(h, n)
    THEN {}
    ELSE {n} \cup TreeReach(h, h[n].left, fuel - 1)
             \cup TreeReach(h, h[n].right, fuel - 1)

\* How many nodes of the tree hold each value.
TreeBag(h, root) ==
    [v \in Values |->
        Cardinality({n \in TreeReach(h, root, MaxNodes) : h[n].data = v})]

-----------------------------------------------------------------------------
(* forward_list *)

\* forward_list<Type> is instantiated with Type = int.  The cells of its
\* nodes keep their names: a deallocated cell stays "freed".

FwdFreedCell == [st |-> "freed", data |-> 0, next |-> Null]

\* The nodes from begin() to end(): m_head and what m_next reaches.
FwdNodes(h, head) == StackChain(h, head, MaxNodes)

\* The elements from begin() to end().
FwdSeq(h, head) ==
    LET ns == FwdNodes(h, head) IN [i \in 1..Len(ns) |-> h[ns[i]].data]

\* A call on the forward_list that returns with the nodes h and m_head head.
FwdReturn(h, head, name, arg) ==
    /\ fheap' = h
    /\ flist' = [flist EXCEPT !.m_head = head]
    /\ last' = OpWith(name, "f", Void, arg)
    /\ UNCHANGED <<ub, outsideFwd>>

\* forward_list(): m_head{nullptr}.
FwdCtor ==
    /\ ~ub /\ flist.st = "none"
    /\ fheap' = fheap
    /\ flist' = [NoFwd EXCEPT !.st = "live"]
    /\ last' = Op("fwd", "f", Void)
    /\ UNCHANGED <<ub, outsideFwd>>

\* push_front(data): m_head = __M_create_node(data, m_head).
FwdPushFront(x) ==
    /\ ~ub /\ flist.st = "live" /\ HasFree(fheap, 1)
    /\ FwdReturn([fheap EXCEPT ![Allocate(fheap)] =
                     [st |-> "live", data |-> x, next |-> flist.m_head]],
                 Allocate(fheap), "fwd_push_front", <<x>>)

\* The iterators of the list: one per node, and end(), whose m_node is null.
FwdPositions == Range(FwdNodes(fheap, flist.m_head)) \cup {Null}

\* erase_after(prev): with current = prev.m_node not null and target =
\* current->m_next not null, current->m_next = target->m_next and target is
\* destroyed and deallocated; nothing otherwise.
FwdEraseAfter(prev) ==
    /\ ~ub /\ flist.st = "live" /\ prev \in FwdPositions
    /\ LET target == fheap[prev].next
       IN  IF prev = Null \/ target = Null
           THEN FwdReturn(fheap, flist.m_head, "fwd_erase_after", <<prev>>)
           ELSE FwdReturn([fheap EXCEPT ![prev].next = fheap[target].next,
                                        ![target] = FwdFreedCell],
                          flist.m_head, "fwd_erase_after", <<prev>>)

\* The iterators reachable from prev by operator++, prev excluded.
FwdAfter(prev) ==
    IF prev = Null THEN {}
    ELSE Range(FwdNodes(fheap, fheap[prev].next)) \cup {Null}

\* erase_after(prev, end): the body of the function is empty.
FwdEraseAfterRange(prev, end) ==
    /\ ~ub /\ flist.st = "live"
    /\ prev \in FwdPositions \ {Null} /\ end \in FwdAfter(prev)
    /\ FwdReturn(fheap, flist.m_head, "fwd_erase_after_range", <<prev, end>>)

RECURSIVE FwdClearLoop(_, _, _)
\* clear(): while (m_head != nullptr) pop_front(), which moves m_head to the
\* next node and destroys and deallocates the old head.
FwdClearLoop(h, head, fuel) ==
    IF head = Null \/ fuel = 0
    THEN [h |-> h, head |-> head]
    ELSE FwdClearLoop([h EXCEPT ![head] = FwdFreedCell], h[head].next, fuel - 1)

RECURSIVE FwdAppendLoop(_, _, _)
\* The loops of __M_range_init and of insert_after(position, first, last):
\* a node for each value of r is linked after cursor, which moves to it.
FwdAppendLoop(h, cursor, r) ==
    IF r = <<>>
    THEN h
    ELSE LET node == Allocate(h)
         IN  FwdAppendLoop([h EXCEPT ![node] = [st |-> "live", data |-> Head(r),
                                                next |-> h[cursor].next],
                                     ![cursor].next = node],
                           node, Tail(r))

RECURSIVE FwdAssignCopyLoop(_, _, _, _)
\* The first loop of __M_assign: while (first != last && begin != end) {
\* *begin = *first; prev = begin; ++begin; ++first; }.
FwdAssignCopyLoop(h, begin, prev, r) ==
    IF r = <<>> \/ begin = Null
    THEN [h |-> h, prev |-> prev, rest |-> r]
    ELSE FwdAssignCopyLoop([h EXCEPT ![begin].data = Head(r)], h[begin].next,
                           begin, Tail(r))

RECURSIVE FwdAssignTrimLoop(_, _)
\* The last loop of __M_assign: while (prev != end) erase_after(prev), with
\* end the null iterator.  Nothing in the loop assigns prev.  A round with
\* prev->m_next null changes nothing, so from there the loop runs for ever
\* ("running").
FwdAssignTrimLoop(h, prev) ==
    IF prev = Null
    THEN [h |-> h, end |-> "done"]
    ELSE IF h[prev].next = Null
    THEN [h |-> h, end |-> "running"]
    ELSE LET target == h[prev].next
         IN  FwdAssignTrimLoop([h EXCEPT ![prev].next = h[target].next,
                                         ![target] = FwdFreedCell], prev)

\* __M_assign(first, last) on the nodes h of the list with head head, r being
\* the values of [first, last): clear() for an empty range; __M_range_init
\* for an empty list; else the values are copied over the nodes there are,
\* and the rest of the range is inserted after the last node written or the
\* nodes after it are erased.
FwdAssignOn(h, head, r) ==
    IF r = <<>>
    THEN LET c == FwdClearLoop(h, head, MaxNodes)
         IN  [h |-> c.h, head |-> c.head, end |-> "done"]
    ELSE IF head = Null
    THEN LET node == Allocate(h)
             h1 == [h EXCEPT ![node] = [st |-> "live", data |-> Head(r),
                                        next |-> Null]]
         IN  [h |-> FwdAppendLoop(h1, node, Tail(r)), head |-> node,
              end |-> "done"]
    ELSE LET c == FwdAssignCopyLoop(h, head, Null, r)
         IN  IF c.rest # <<>>
             THEN [h |-> FwdAppendLoop(c.h, c.prev, c.rest), head |-> head,
                   end |-> "done"]
             ELSE LET t == FwdAssignTrimLoop(c.h, c.prev)
                  IN  [h |-> t.h, head |-> head, end |-> t.end]

\* A call of __M_assign(first, last) with the values r in [first, last), as
\* __M_copy_assign(outer, std::true_type) makes it on the list as it is.  An
\* endless loop without side effects is undefined behaviour: the call does
\* not return, or the loop is assumed to end and the call returns.
FwdAssign(r) ==
    /\ ~ub /\ flist.st = "live"
    /\ HasFree(fheap, IF Len(r) > Len(FwdNodes(fheap, flist.m_head))
                      THEN Len(r) - Len(FwdNodes(fheap, flist.m_head)) ELSE 0)
    /\ LET a == FwdAssignOn(fheap, flist.m_head, r)
       IN  IF a.end = "done"
           THEN FwdReturn(a.h, a.head, "fwd_assign", r)
           ELSE /\ fheap' = a.h
                /\ ub' = TRUE
                /\ \E res \in {Diverges, Void} :
                      last' = OpWith("fwd_assign", "f", res, r)
                /\ UNCHANGED <<flist, outsideFwd>>

RECURSIVE FwdReverseLoopNoRelink(_, _, _, _)
\* The loop of __M_reverse without curr->m_next = prev.
FwdReverseLoopNoRelink(h, prev, curr, fuel) ==
    IF curr = Null \/ fuel = 0
    THEN [h |-> h, head |-> prev]
    ELSE FwdReverseLoopNoRelink(h, curr, h[curr].next, fuel - 1)

RECURSIVE FwdReverseLoop(_, _, _, _)
\* The loop of __M_reverse: while curr is not null, next = curr->m_next,
\* curr->m_next = prev, prev = curr, curr = next; prev is returned.
FwdReverseLoop(h, prev, curr, fuel) ==
    IF curr = Null \/ fuel = 0
    THEN [h |-> h, head |-> prev]
    ELSE FwdReverseLoop([h EXCEPT ![curr].next = prev], curr, h[curr].next,
                        fuel - 1)

\* __M_reverse(head).
FwdReverseFrom(h, head) == FwdReverseLoop(h, Null, head, MaxNodes)

\* reverse(): m_head = __M_reverse(m_head).
FwdReverse ==
    /\ ~ub /\ flist.st = "live"
    /\ LET r == FwdReverseFrom(fheap, flist.m_head)
       IN  FwdReturn(r.h, r.head, "fwd_reverse", <<>>)

-----------------------------------------------------------------------------
(* Specifications *)

Ranges == UNION {[1..n -> Values] : n \in 0..MaxRange}

\* Every operation, on every list object that exists.
Next ==
    \/ \E l \in Lists : DefaultCtor(l)
    \/ \E l \in Lists, s \in Ranges : RangeCtor(l, s)
    \/ \E l \in Lists, s \in Ranges : InitListCtor(l, s)
    \/ \E l, src \in Lists : CopyCtor(l, src)
    \/ \E l, src \in Lists : MoveCtor(l, src)
    \/ \E l \in Lists, x \in Values : PushBack(l, x)
    \/ \E l \in Lists, x \in Values : PushFront(l, x)
    \/ \E l \in Lists, x \in Values : EmplaceBack(l, x)
    \/ \E l \in Lists, x \in Values : EmplaceFront(l, x)
    \/ \E l \in Lists, pos \in NodeIds, x \in Values : InsertAfter(l, pos, x)
    \/ \E l \in Lists, pos \in NodeIds, x \in Values : InsertBefore(l, pos, x)
    \/ \E l \in Lists, pos \in NodeIds : Erase(l, pos)
    \/ \E l \in Lists : PopFront(l)
    \/ \E l \in Lists : PopBack(l)
    \/ \E l \in Lists : Clear(l)
    \/ \E l \in Lists : Empty(l)
    \/ \E l \in Lists : Front(l)
    \/ \E l \in Lists : Back(l)
    \/ \E l \in Lists : Size(l)
    \/ \E l, r \in Lists : Swap(l, r)
    \/ \E l, src \in Lists : CopyAssign(l, src)
    \/ \E l, src \in Lists, how \in MoveBranches : MoveAssign(l, src, how)
    \/ \E l \in Lists : Destroy(l)

Spec == Init /\ [][Next]_vars

\* The list holds at least one element.
HasElement(l) == ValidList(l) /\ RingNodes(heap, lists[l].m_head) # <<>>

\* Construction, insertion, swap, and removal at element positions only:
\* pop_front / pop_back are called on lists that hold an element, and
\* clear() is not called.
NextContract ==
    \/ \E l \in Lists : DefaultCtor(l)
    \/ \E l \in Lists, s \in Ranges : RangeCtor(l, s)
    \/ \E l \in Lists, s \in Ranges : InitListCtor(l, s)
    \/ \E l, src \in Lists : CopyCtor(l, src)
    \/ \E l, src \in Lists : MoveCtor(l, src)
    \/ \E l \in Lists, x \in Values : PushBack(l, x)
    \/ \E l \in Lists, x \in Values : PushFront(l, x)
    \/ \E l \in Lists, x \in Values : EmplaceBack(l, x)
    \/ \E l \in Lists, x \in Values : EmplaceFront(l, x)
    \/ \E l \in Lists, pos \in NodeIds, x \in Values : InsertAfter(l, pos, x)
    \/ \E l \in Lists, pos \in NodeIds, x \in Values : InsertBefore(l, pos, x)
    \/ \E l \in Lists, pos \in NodeIds : Erase(l, pos)
    \/ \E l \in Lists : HasElement(l) /\ PopFront(l)
    \/ \E l \in Lists : HasElement(l) /\ PopBack(l)
    \/ \E l \in Lists : HasElement(l) /\ Front(l)
    \/ \E l \in Lists : HasElement(l) /\ Back(l)
    \/ \E l \in Lists : Empty(l)
    \/ \E l \in Lists : Size(l)
    \/ \E l, r \in Lists : Swap(l, r)

SpecContract == Init /\ [][NextContract]_vars

\* List b exists only as a copy of list a: a is constructed and modified,
\* b is copy-constructed from a, and both are modified afterwards.
NextCopy ==
    \/ DefaultCtor("a")
    \/ \E s \in Ranges : RangeCtor("a", s)
    \/ CopyCtor("b", "a")
    \/ \E l \in Lists, x \in Values : PushBack(l, x)
    \/ \E l \in Lists, x \in Values : PushFront(l, x)
    \/ \E l \in Lists, pos \in NodeIds, x \in Values : InsertAfter(l, pos, x)
    \/ \E l \in Lists, pos \in NodeIds, x \in Values : InsertBefore(l, pos, x)
    \/ \E l \in Lists, pos \in NodeIds : Erase(l, pos)
    \/ \E l \in Lists : HasElement(l) /\ PopFront(l)
    \/ \E l \in Lists : HasElement(l) /\ PopBack(l)

SpecCopy == Init /\ [][NextCopy]_vars

\* empty() on one list and on one queue, each built by its default
\* constructor and push_back.
NextEmpty ==
    \/ DefaultCtor("a")
    \/ \E x \in Values : PushBack("a", x)
    \/ HasElement("a") /\ PopFront("a")
    \/ Empty("a")
    \/ QueueCtor("q")
    \/ \E x \in Values : QueuePushBack("q", x)
    \/ QueueEmpty("q")

SpecEmpty == Init /\ [][NextEmpty]_vars

\* List b exists only as the target of a move construction from list a: a
\* is constructed and modified, b is move-constructed from a, and both are
\* pushed to and popped from afterwards.
NextMove ==
    \/ DefaultCtor("a")
    \/ \E s \in Ranges : RangeCtor("a", s)
    \/ MoveCtor("b", "a")
    \/ \E l \in Lists, x \in Values : PushBack(l, x)
    \/ \E l \in Lists, x \in Values : PushFront(l, x)
    \/ \E l \in Lists : HasElement(l) /\ PopFront(l)
    \/ \E l \in Lists : HasElement(l) /\ PopBack(l)
    \/ \E l \in Lists : Empty(l)

SpecMove == Init /\ [][NextMove]_vars

\* Assignment between two lists that are constructed, pushed to and popped
\* from while they hold an element: move assignment in each branch, and
\* copy assignment of a list to itself.
NextAssign ==
    \/ \E l \in Lists : DefaultCtor(l)
    \/ \E l \in Lists, s \in Ranges : RangeCtor(l, s)
    \/ \E l \in Lists : CopyAssign(l, l)
    \/ \E l, src \in Lists, how \in MoveBranches : MoveAssign(l, src, how)
    \/ \E l \in Lists, x \in Values : PushBack(l, x)
    \/ \E l \in Lists : HasElement(l) /\ PopFront(l)

SpecAssign == Init /\ [][NextAssign]_vars

\* The ranges passed to the range overloads: runs of consecutive values,
\* so that no two elements of a range are equal.
Runs ==
    {[i \in 1..n |-> v + i - 1] : n \in 0..MaxRange, v \in Values} \cap Ranges

\* The count and range overloads of insert_after and insert_before on one
\* list that is built by push_back and shortened by pop_front.
NextInsert ==
    \/ DefaultCtor("a")
    \/ \E x \in Values : PushBack("a", x)
    \/ HasElement("a") /\ PopFront("a")
    \/ \E pos \in NodeIds, count \in 0..MaxRange, x \in Values :
          InsertAfterCount("a", pos, count, x)
    \/ \E pos \in NodeIds, s \in Runs : InsertAfterRange("a", pos, s)
    \/ \E pos \in NodeIds, count \in 0..MaxRange, x \in Values :
          InsertBeforeCount("a", pos, count, x)
    \/ \E pos \in NodeIds, s \in Runs : InsertBeforeRange("a", pos, s)

SpecInsert == Init /\ [][NextInsert]_vars

\* push and emplace on one list, with element constructors that may throw.
NextThrow ==
    \/ DefaultCtor("a")
    \/ \E x \in Values : PushBack("a", x)
    \/ \E x \in Values : PushFront("a", x)
    \/ \E x \in Values : EmplaceBack("a", x)
    \/ \E x \in Values : EmplaceFront("a", x)
    \/ PushBackThrows("a")
    \/ PushFrontThrows("a")
    \/ EmplaceBackThrows("a")
    \/ EmplaceFrontThrows("a")
    \/ HasElement("a") /\ PopFront("a")

SpecThrow == Init /\ [][NextThrow]_vars

\* List b exists only as list(a.begin(), a.end()): a is constructed and
\* modified, b is constructed from a's iterators, and both are modified
\* afterwards.
NextRoundTrip ==
    \/ DefaultCtor("a")
    \/ \E s \in Ranges : RangeCtor("a", s)
    \/ RangeCtorFrom("b", "a")
    \/ \E l \in Lists, x \in Values : PushBack(l, x)
    \/ \E l \in Lists, x \in Values : PushFront(l, x)
    \/ \E pos \in NodeIds, x \in Values : InsertAfter("a", pos, x)
    \/ \E pos \in NodeIds, x \in Values : InsertBefore("a", pos, x)
    \/ \E l \in Lists, pos \in NodeIds : Erase(l, pos)
    \/ \E l \in Lists : HasElement(l) /\ PopFront(l)
    \/ \E l \in Lists : HasElement(l) /\ PopBack(l)

SpecRoundTrip == Init /\ [][NextRoundTrip]_vars

\* insert_after and insert_before of one element, at every position of one
\* list that is built by push_back and shortened by pop_front.
NextInsertOne ==
    \/ DefaultCtor("a")
    \/ \E x \in Values : PushBack("a", x)
    \/ HasElement("a") /\ PopFront("a")
    \/ \E pos \in NodeIds, x \in Values : InsertAfter("a", pos, x)
    \/ \E pos \in NodeIds, x \in Values : InsertBefore("a", pos, x)

SpecInsertOne == Init /\ [][NextInsertOne]_vars

\* Two lists that are constructed, copied, moved, assigned and swapped, and
\* pushed to and popped from while they hold an element.
NextOwnership ==
    \/ \E l \in Lists : DefaultCtor(l)
    \/ \E l \in Lists, s \in Ranges : RangeCtor(l, s)
    \/ \E l, src \in Lists : CopyCtor(l, src)
    \/ \E l, src \in Lists : MoveCtor(l, src)
    \/ \E l, src \in Lists : CopyAssign(l, src)
    \/ \E l, src \in Lists, how \in MoveBranches : MoveAssign(l, src, how)
    \/ \E l, r \in Lists : Swap(l, r)
    \/ \E l \in Lists, x \in Values : PushBack(l, x)
    \/ \E l \in Lists : HasElement(l) /\ PopFront(l)

SpecOwnership == Init /\ [][NextOwnership]_vars

\* erase(first, last) on ranges of elements of one list that is constructed
\* from a range and pushed to.
NextErase ==
    \/ DefaultCtor("a")
    \/ \E s \in Ranges : RangeCtor("a", s)
    \/ \E x \in Values : PushBack("a", x)
    \/ \E first, stop \in NodeIds : EraseRange("a", first, stop)

SpecErase == Init /\ [][NextErase]_vars

\* push, emplace, pop and the observers on one stack.
NextLifo ==
    \/ StackCtor("s")
    \/ \E x \in Values : StackPush("s", x)
    \/ \E x \in Values : StackEmplace("s", x)
    \/ StackPop("s")
    \/ StackTop("s")
    \/ StackEmpty("s")
    \/ StackSize("s")

SpecLifo == Init /\ [][NextLifo]_vars

\* The size bookkeeping of stack and queue never reads an element: the
\* least and the greatest value are pushed.
EndValues == {0, MaxVal}
EndRanges == UNION {[1..n -> EndValues] : n \in 0..MaxRange}

\* The constructors of queue, push_back, emplace_back, size and swap, on two
\* queues.
NextQueue ==
    \/ \E q \in Queues : QueueCtor(q)
    \/ \E q \in Queues, r \in EndRanges : QueueRangeCtor(q, r)
    \/ \E q \in Queues, r \in EndRanges : QueueInitListCtor(q, r)
    \/ \E q \in Queues : QueueCopyCtor(q, CHOOSE r \in Queues : r # q)
    \/ \E q \in Queues : QueueMoveCtor(q, CHOOSE r \in Queues : r # q)
    \/ \E q \in Queues, x \in EndValues : QueuePushBack(q, x)
    \/ \E q \in Queues, x \in EndValues : QueueEmplaceBack(q, x)
    \/ \E q \in Queues : QueueSize(q)
    \/ \E q, r \in Queues : QueueSwap(q, r)

SpecQueue == Init /\ [][NextQueue]_vars

\* insert, emplace and search on one tree.
NextSearch ==
    \/ TreeCtor
    \/ \E x \in Values : TreeInsert(x)
    \/ \E x \in Values : TreeEmplace(x)
    \/ \E key \in Values : TreeSearch(key)

SpecSearch == Init /\ [][NextSearch]_vars

\* insert, emplace, search and remove on one tree.
NextTree ==
    \/ TreeCtor
    \/ \E x \in Values : TreeInsert(x)
    \/ \E x \in Values : TreeEmplace(x)
    \/ \E key \in Values : TreeSearch(key)
    \/ \E key \in Values : TreeRemove(key)

SpecTree == Init /\ [][NextTree]_vars

\* insert, emplace, remove and clear on one tree.
NextTreeOps ==
    \/ TreeCtor
    \/ \E x \in Values : TreeInsert(x)
    \/ \E x \in Values : TreeEmplace(x)
    \/ \E key \in Values : TreeRemove(key)
    \/ TreeClear

SpecTreeOps == Init /\ [][NextTreeOps]_vars

\* clear on the trees that insert and emplace build.
NextClear ==
    \/ TreeCtor
    \/ \E x \in Values : TreeInsert(x)
    \/ \E x \in Values : TreeEmplace(x)
    \/ TreeClear

SpecClear == Init /\ [][NextClear]_vars

\* The three print functions on the trees that insert and emplace build.
NextPrint ==
    \/ TreeCtor
    \/ \E x \in Values : TreeInsert(x)
    \/ \E x \in Values : TreeEmplace(x)
    \/ TreePrintInorder
    \/ TreePrintPreorder
    \/ TreePrintPostorder

SpecPrint == Init /\ [][NextPrint]_vars

\* push_front and both erase_after on one forward_list.
NextForward ==
    \/ FwdCtor
    \/ \E x \in Values : FwdPushFront(x)
    \/ \E prev \in NodeIds \cup {Null} : FwdEraseAfter(prev)
    \/ \E prev \in NodeIds, end \in NodeIds \cup {Null} :
          FwdEraseAfterRange(prev, end)

SpecForward == Init /\ [][NextForward]_vars

\* push_front, erase_after(prev) and reverse on one forward_list.
NextReverse ==
    \/ FwdCtor
    \/ \E x \in Values : FwdPushFront(x)
    \/ \E prev \in NodeIds \cup {Null} : FwdEraseAfter(prev)
    \/ FwdReverse

SpecReverse == Init /\ [][NextReverse]_vars

\* __M_assign on lists and ranges of every pair of lengths.
NextFwdAssign ==
    \/ FwdCtor
    \/ \E x \in Values : FwdPushFront(x)
    \/ \E r \in Ranges : FwdAssign(r)

SpecFwdAssign == Init /\ [][NextFwdAssign]_vars

\* clear(), copy assignment and move assignment in each branch, on lists
\* built by the constructors and push_back.
NextLeak ==
    \/ \E l \in Lists : DefaultCtor(l)
    \/ \E l \in Lists, s \in Ranges : RangeCtor(l, s)
    \/ \E l \in Lists, x \in Values : PushBack(l, x)
    \/ \E l \in Lists : Clear(l)
    \/ \E l, src \in Lists : CopyAssign(l, src)
    \/ \E l, src \in Lists, how \in MoveBranches : MoveAssign(l, src, how)

SpecLeak == Init /\ [][NextLeak]_vars

\* Every operation of stack, on two stacks.
NextStack ==
    \/ \E s \in Stacks : StackCtor(s)
    \/ \E s \in Stacks, r \in EndRanges : StackRangeCtor(s, r)
    \/ \E s \in Stacks, r \in EndRanges : StackInitListCtor(s, r)
    \/ \E s \in Stacks : StackCopyCtor(s, CHOOSE t \in Stacks : t # s)
    \/ \E s \in Stacks : StackMoveCtor(s, CHOOSE t \in Stacks : t # s)
    \/ \E s \in Stacks, x \in EndValues : StackPush(s, x)
    \/ \E s \in Stacks, x \in EndValues : StackEmplace(s, x)
    \/ \E s \in Stacks : StackPop(s)
    \/ \E s \in Stacks : StackClear(s)
    \/ \E s \in Stacks : StackTop(s)
    \/ \E s \in Stacks : StackEmpty(s)
    \/ \E s \in Stacks : StackSize(s)
    \/ \E s, t \in Stacks : StackSwap(s, t)
    \/ \E s, t \in Stacks : StackCopyAssign(s, t)
    \/ \E s, t \in Stacks : StackMoveAssign(s, t)
    \/ \E s \in Stacks : StackDestroy(s)

SpecStack == Init /\ [][NextStack]_vars

\* Copy assignment between two stacks of every pair of lengths.
NextStackAssign ==
    \/ \E s \in Stacks : StackCtor(s)
    \/ \E s \in Stacks, x \in EndValues : StackPush(s, x)
    \/ \E s \in Stacks : StackPop(s)
    \/ \E s, t \in Stacks : StackCopyAssign(s, t)
    \/ \E s, t \in Stacks : StackCopyAssignPropagate(s, t)

SpecStackAssign == Init /\ [][NextStackAssign]_vars

-----------------------------------------------------------------------------
(* Properties *)

RECURSIVE Follow(_, _, _)
\* The pointer reached from n by k steps along m_next.
Follow(h, n, k) ==
    IF k = 0 \/ ~Live(h, n) THEN n ELSE Follow(h, h[n].next, k - 1)

\* Every pointer reached from head along m_next, head included.
ReachedFrom(h, head) == {Follow(h, head, k) : k \in 0..MaxNodes}

\* Node n is live and linked with both of its neighbours.
Linked(h, n) ==
    /\ Live(h, n) /\ Live(h, h[n].prev) /\ Live(h, h[n].next)
    /\ h[h[n].prev].next = n
    /\ h[h[n].next].prev = n

\* One closed ring anchored at head.
ClosedRing(h, head) ==
    /\ \A n \in ReachedFrom(h, head) : Linked(h, n)
    /\ \E k \in 1..MaxNodes : Follow(h, head, k) = head

Elems(l) == ListSeq(heap, lists[l].m_head)
LiveCells(h) == {n \in NodeIds : Live(h, n)}

\* C1: after construction, push, emplace, insert, copy and move
\* construction, swap, and pop / erase at element positions, every node
\* reachable from m_head along m_next satisfies n.prev.next == n and
\* n.next.prev == n, and following m_next from m_head leads back to m_head:
\* the nodes of a list form one closed ring anchored at its sentinel.
C1_RingInvariant ==
    \A l \in Lists : IsLive(l) => ClosedRing(heap, lists[l].m_head)

\* C1 witness: an erase has left list a with two elements in its ring.
C1_Witness ==
    /\ last.op = "erase" /\ last.l = "a"
    /\ Len(Elems("a")) = 2
    /\ ClosedRing(heap, lists["a"].m_head)

\* C2: push_back(x) makes x the last element and push_front(x) the first,
\* and leaves the elements that were in the list in their order.
C2_PushAppends ==
    [][\A l \in Lists, x \in Values :
          /\ (last'.op = "push_back" /\ PushBack(l, x)) =>
                ListSeq(heap', lists'[l].m_head) = Append(Elems(l), x)
          /\ (last'.op = "push_front" /\ PushFront(l, x)) =>
                ListSeq(heap', lists'[l].m_head) = <<x>> \o Elems(l)]_vars

\* C2 witness: push_back(1); push_back(2); push_front(0) on an empty list
\* has given [0, 1, 2].
C2_Witness ==
    /\ last.op = "push_front" /\ last.l = "a"
    /\ Elems("a") = <<0, 1, 2>>

\* s without its i-th element.
Without(s, i) == SubSeq(s, 1, i - 1) \o SubSeq(s, i + 1, Len(s))

\* The index of node n in the sequence of nodes ns.
IndexOf(ns, n) == CHOOSE i \in 1..Len(ns) : ns[i] = n

\* C6: erase(position) at an element removes exactly that element, keeps
\* every other element in order, and returns an iterator to the element
\* that followed it, or end() if it was the last.
C6_EraseRemovesOne ==
    [][\A l \in Lists, pos \in NodeIds :
          (last'.op = "erase" /\ Erase(l, pos)) =>
             LET i == IndexOf(RingNodes(heap, lists[l].m_head), pos)
                 after == RingNodes(heap', lists'[l].m_head)
             IN  /\ ListSeq(heap', lists'[l].m_head) = Without(Elems(l), i)
                 /\ last'.res.kind = "iter"
                 /\ last'.res.val = IF i <= Len(after) THEN after[i]
                                    ELSE lists'[l].m_head]_vars

\* C6 witness: erase(++begin()) on [0, 1, 2] has left [0, 2] and returned an
\* iterator that dereferences to 2.
C6_Witness ==
    /\ last.op = "erase" /\ last.l = "a"
    /\ Elems("a") = <<0, 2>>
    /\ last.res.kind = "iter" /\ Live(heap, last.res.val)
    /\ last.res.val = RingNodes(heap, lists["a"].m_head)[2]
    /\ heap[last.res.val].data = 2

\* C7: on a list that holds an element, pop_front() removes exactly the
\* first element and pop_back() exactly the last, the node is deallocated,
\* and the other elements keep their order.
C7_PopRemovesEnd ==
    [][\A l \in Lists :
          HasElement(l) =>
             /\ (last'.op = "pop_front" /\ PopFront(l)) =>
                   /\ ListSeq(heap', lists'[l].m_head) = Tail(Elems(l))
                   /\ Cardinality(LiveCells(heap')) = Cardinality(LiveCells(heap)) - 1
             /\ (last'.op = "pop_back" /\ PopBack(l)) =>
                   /\ ListSeq(heap', lists'[l].m_head) =
                         SubSeq(Elems(l), 1, Len(Elems(l)) - 1)
                   /\ Cardinality(LiveCells(heap')) = Cardinality(LiveCells(heap)) - 1]_vars

\* C7 witness: a pop_back has left list a with two elements, the second of
\* them not equal to the first.
C7_Witness ==
    /\ last.op = "pop_back" /\ last.l = "a"
    /\ Len(Elems("a")) = 2
    /\ Elems("a")[1] # Elems("a")[2]

\* The nodes, sentinels included, that the rings of both lists hold.
SharedNodes(h, ls) ==
    Range(Ring(h, ls["a"].m_head)) \cap Range(Ring(h, ls["b"].m_head))

\* A push, pop, insert or erase on list l.
Modifies(l) ==
    \/ \E x \in Values : PushBack(l, x) \/ PushFront(l, x)
    \/ \E pos \in NodeIds, x \in Values : InsertAfter(l, pos, x) \/ InsertBefore(l, pos, x)
    \/ \E pos \in NodeIds : Erase(l, pos)
    \/ PopFront(l)
    \/ PopBack(l)

\* C10: after b is copy-constructed from a, b's sequence equals a's, b has
\* its own sentinel and shares no node with a, and a later push, pop,
\* insert or erase on either list leaves the other list's sequence
\* unchanged.
C10_CopyIndependent ==
    [][/\ CopyCtor("b", "a") =>
             /\ ListSeq(heap', lists'["b"].m_head) = Elems("a")
             /\ ListSeq(heap', lists'["a"].m_head) = Elems("a")
             /\ Live(heap', lists'["b"].m_head)
             /\ lists'["b"].m_head # lists'["a"].m_head
             /\ SharedNodes(heap', lists') = {}
       /\ \A l \in Lists :
             (IsLive("a") /\ IsLive("b") /\ last'.l = l /\ Modifies(l)) =>
                /\ ListSeq(heap', lists'[Other(l)].m_head) = Elems(Other(l))
                /\ SharedNodes(heap', lists') = {}]_vars

\* C10 witness: b, a copy of a, has lost its element by an erase while a
\* still holds [1].
C10_Witness ==
    /\ last.op = "erase" /\ last.l = "b"
    /\ IsLive("a") /\ IsLive("b")
    /\ Elems("a") = <<1>>
    /\ Elems("b") = <<>>

\* The sentinel of a list with this m_head points at itself both ways.
SelfLinked(h, head) == h[head].next = head /\ h[head].prev = head

\* C3: on a list that holds an element, front() returns an optional holding
\* the first element and back() one holding the last; on an empty list both
\* return an empty optional.
C3_FrontBack ==
    ValidList(last.l) =>
       /\ last.op = "front" =>
             last.res = IF Elems(last.l) = <<>> THEN Nullopt
                        ELSE Some(Head(Elems(last.l)))
       /\ last.op = "back" =>
             last.res = IF Elems(last.l) = <<>> THEN Nullopt
                        ELSE Some(Elems(last.l)[Len(Elems(last.l))])

\* C4: list::empty() and queue::empty() return true if and only if the
\* sentinel's next and prev both point to the sentinel, i.e. the container
\* holds no element.
C4_EmptyIffNoElement ==
    /\ (last.op = "empty" /\ ValidList(last.l)) =>
          last.res = Bool(SelfLinked(heap, lists[last.l].m_head))
    /\ last.op = "queue_empty" =>
          last.res = Bool(SelfLinked(qheap, queues[last.l].m_head))

\* C5: size() returns the number of elements in the list, and 0 for a
\* cleared list.
C5_SizeCounts ==
    last.op = "size" =>
       /\ ValidList(last.l) => last.res = SizeOf(Len(Elems(last.l)))
       /\ lists[last.l].m_head = Null => last.res = SizeOf(0)

\* C8: clear() removes and deallocates every element node and leaves the
\* sentinel allocated and self-linked.
C8_ClearEmpties ==
    [][\A l \in Lists :
          (ValidList(l) /\ Clear(l)) =>
             /\ Live(heap', lists'[l].m_head)
             /\ SelfLinked(heap', lists'[l].m_head)
             /\ Cardinality(LiveCells(heap')) =
                   Cardinality(LiveCells(heap)) - Len(Elems(l))]_vars

\* C9: after every operation on a list, m_head is non-null and refers to a
\* sentinel node that has not been deallocated.
C9_SentinelAlways ==
    \A l \in Lists : IsLive(l) => Live(heap, lists[l].m_head)

\* A push or a pop on list l.
PushesOrPops(l) ==
    \/ \E x \in Values : PushBack(l, x) \/ PushFront(l, x)
    \/ PopFront(l)
    \/ PopBack(l)

\* C11: after b is move-constructed from a, b's sequence is a's former
\* sequence held in the nodes a had (one node, a's new sentinel, is
\* allocated and none is deallocated), a has a fresh self-linked sentinel
\* distinct from b's, a.empty() is true, and a later push or pop on a
\* returns normally and leaves b's sequence unchanged.
C11_MoveLeavesSourceEmpty ==
    [][/\ MoveCtor("b", "a") =>
             /\ ListSeq(heap', lists'["b"].m_head) = Elems("a")
             /\ Cardinality(LiveCells(heap')) = Cardinality(LiveCells(heap)) + 1
             /\ Live(heap', lists'["a"].m_head)
             /\ SelfLinked(heap', lists'["a"].m_head)
             /\ ListEmpty(heap', lists'["a"].m_head)
             /\ lists'["a"].m_head # lists'["b"].m_head
             /\ SharedNodes(heap', lists') = {}
       /\ (IsLive("b") /\ PushesOrPops("a")) =>
             /\ ~ub' /\ last'.res = Void
             /\ ListSeq(heap', lists'["b"].m_head) = Elems("b")
             /\ ClosedRing(heap', lists'["a"].m_head)]_vars

\* C11 witness: b holds [1] moved out of a, and a, refilled by a push
\* after the move, has been emptied again by pop_front.
C11_Witness ==
    /\ last.op = "pop_front" /\ last.l = "a"
    /\ IsLive("b") /\ Elems("b") = <<1>>
    /\ Elems("a") = <<>>

\* C12: after copy assignment a = b of two distinct lists, a's sequence
\* equals b's, b's sequence is unchanged, and no null or deallocated node
\* has been touched.
C12_CopyAssignMatches ==
    [][\A l, src \in Lists :
          (l # src /\ ValidList(l) /\ ValidList(src) /\ CopyAssign(l, src)) =>
             /\ ~ub'
             /\ ListSeq(heap', lists'[l].m_head) = Elems(src)
             /\ ListSeq(heap', lists'[src].m_head) = Elems(src)]_vars

\* C13: after move assignment a = std::move(b) of two distinct lists, in
\* every branch, a's sequence is b's former sequence, b has a fresh
\* self-linked sentinel of its own, and later pushes and pops on either
\* list return normally.
C13_MoveAssignTransfers ==
    [][/\ \A l, src \in Lists, how \in MoveBranches :
             (l # src /\ MoveAssign(l, src, how)) =>
                /\ ~ub'
                /\ ListSeq(heap', lists'[l].m_head) = Elems(src)
                /\ Live(heap', lists'[src].m_head)
                /\ SelfLinked(heap', lists'[src].m_head)
                /\ lists'[src].m_head # lists'[l].m_head
                /\ SharedNodes(heap', lists') = {}
                /\ ClosedRing(heap', lists'[l].m_head)
       /\ \A l \in Lists :
             ((PushFront(l, 0) \/ PushBack(l, 0)
                 \/ (HasElement(l) /\ (PopFront(l) \/ PopBack(l)))) =>
                (~ub' /\ last'.res = Void /\ ClosedRing(heap', lists'[l].m_head)))]_vars

\* C13 witness: a holds [1] taken from b by a move assignment in the
\* unequal-allocator branch (a's former sentinel is still allocated, in no
\* ring), and b is left with an empty ring.
C13_Witness ==
    /\ last.op = "move_assign" /\ last.l = "a"
    /\ Elems("a") = <<1>>
    /\ Elems("b") = <<>>
    /\ Cardinality(LiveCells(heap)) = 4

\* C14: self-assignment, a = a and a = std::move(a), leaves the heap and
\* the list objects as they were: nothing is allocated, deallocated or
\* relinked, and nothing undefined is executed.
C14_SelfAssignNoOp ==
    [][\A l \in Lists :
          (CopyAssign(l, l) \/ \E how \in MoveBranches : MoveAssign(l, l, how)) =>
             UNCHANGED <<heap, lists, ub>>]_vars

\* C14 witness: list a, the only list there is, holds [1, 2] after it was
\* assigned to itself.
C14_Witness ==
    /\ last.op \in {"copy_assign", "move_assign"} /\ last.l = "a"
    /\ lists["b"].st = "none"
    /\ Elems("a") = <<1, 2>>

\* C20: destroying a list deallocates every node it owns, the element
\* nodes and the sentinel, so that no node of the list stays allocated.
C20_DestroyFreesAll ==
    [][\A l \in Lists :
          (ValidList(l) /\ Destroy(l)) =>
             Cardinality(LiveCells(heap')) =
                Cardinality(LiveCells(heap)) - (1 + Len(Elems(l)))]_vars

UpTo(l, pos) ==
    IF pos = lists[l].m_head THEN 0 ELSE IndexOf(RingNodes(heap, lists[l].m_head), pos)

\* Sequence s with sequence t inserted after its first i elements.
InsertedAt(s, i, t) == SubSeq(s, 1, i) \o t \o SubSeq(s, i + 1, Len(s))

\* The number of elements of list l in front of position pos: all of them
\* for end(), the sentinel.
Before(l, pos) ==
    IF pos = lists[l].m_head THEN Len(Elems(l)) ELSE UpTo(l, pos) - 1

\* C16: insert_after(position, x) places one new element x directly after
\* the node at position and insert_before(position, x) directly before it;
\* at end() insert_after inserts at the front and insert_before appends at
\* the back; the other elements keep their order and the ring stays closed.
C16_InsertAdjacent ==
    [][\A l \in Lists, pos \in NodeIds, x \in Values :
          /\ (last'.op = "insert_after" /\ InsertAfter(l, pos, x)) =>
                /\ ListSeq(heap', lists'[l].m_head) =
                      InsertedAt(Elems(l), UpTo(l, pos), <<x>>)
                /\ ClosedRing(heap', lists'[l].m_head)
          /\ (last'.op = "insert_before" /\ InsertBefore(l, pos, x)) =>
                /\ ListSeq(heap', lists'[l].m_head) =
                      InsertedAt(Elems(l), Before(l, pos), <<x>>)
                /\ ClosedRing(heap', lists'[l].m_head)]_vars

\* C16 witness: an insert_before has made list a [0, 1, 2].
C16_Witness ==
    /\ last.op = "insert_before" /\ last.l = "a"
    /\ Elems("a") = <<0, 1, 2>>

\* The number of elements in front of the node at pointer p, and that node
\* itself, in the ring of heap h anchored at head: 0 for head.
IndexIn(h, head, p) ==
    IF p = head THEN 0 ELSE IndexOf(RingNodes(h, head), p)

\* C17: insert_after(position, first, last) inserts the elements of
\* [first, last) directly after position and insert_before(position, first,
\* last) directly before it, in the order of the range; the count overloads
\* insert count copies of the value there; the other elements keep their
\* places in the sequence.  (The position keeps pointing at its node: after
\* the call the inserted elements are the ones right behind it, or right in
\* front of it.)
C17_InsertManyInOrder ==
    [][LET position == last'.arg[1]
           inserted == last'.arg[2]
           after == ListSeq(heap', lists'["a"].m_head)
           at == IndexIn(heap', lists'["a"].m_head, position)
       IN  /\ last'.op \in {"insert_after_range", "insert_after_count"} =>
                after = InsertedAt(Elems("a"), at, inserted)
           /\ last'.op \in {"insert_before_range", "insert_before_count"} =>
                after = InsertedAt(Elems("a"),
                                   IF position = lists'["a"].m_head
                                   THEN Len(Elems("a"))
                                   ELSE at - 1 - Len(inserted),
                                   inserted)]_vars

\* C17 witness: the range overload of insert_after has inserted [1, 2]
\* behind the 0 of list a.
C17_Witness ==
    /\ last.op = "insert_after_range" /\ last.l = "a"
    /\ last.arg[2] = <<1, 2>>
    /\ Elems("a") = <<0, 1, 2>>

\* C18: when constructing the element throws inside push_back, push_front,
\* emplace_back or emplace_front, the storage allocated for the node is
\* deallocated before the exception leaves the call, and the heap and the
\* list are exactly as before the call.
C18_ThrowRollsBack ==
    [][\A l \in Lists :
          (PushBackThrows(l) \/ PushFrontThrows(l)
              \/ EmplaceBackThrows(l) \/ EmplaceFrontThrows(l)) =>
             /\ last'.res = Threw
             /\ {n \in NodeIds : Allocated(heap', n)} = {n \in NodeIds : Allocated(heap, n)}
             /\ UNCHANGED <<heap, lists, ub>>]_vars

\* C18 witness: an emplace_front on list a, holding [1, 2], was left by an
\* exception.
C18_Witness ==
    /\ last.op = "emplace_front" /\ last.l = "a" /\ last.res = Threw
    /\ Elems("a") = <<1, 2>>

\* C19: list(l.begin(), l.end()) holds l's sequence in the same order in
\* nodes allocated for it (a sentinel and one node per element, none shared
\* with l), l is unchanged, and a later push, pop, insert or erase on l
\* does not change the new list's sequence.
C19_RangeRoundTrip ==
    [][/\ RangeCtorFrom("b", "a") =>
             /\ ListSeq(heap', lists'["b"].m_head) = Elems("a")
             /\ ListSeq(heap', lists'["a"].m_head) = Elems("a")
             /\ Cardinality(LiveCells(heap')) =
                   Cardinality(LiveCells(heap)) + 1 + Len(Elems("a"))
             /\ SharedNodes(heap', lists') = {}
       /\ (IsLive("b") /\ Modifies("a")) =>
             ListSeq(heap', lists'["b"].m_head) = Elems("b")]_vars

\* C19 witness: b, built from a's iterators while a held [1], still holds
\* [1] after a has lost its element by an erase.
C19_Witness ==
    /\ last.op = "erase" /\ last.l = "a"
    /\ IsLive("b")
    /\ Elems("a") = <<>>
    /\ Elems("b") = <<1>>

\* C21: erase(position) leaves every node other than the erased one, the
\* sentinels included, allocated and holding the value it held; an iterator
\* to such a node still points at it, and stepping it by ++ or -- leads to
\* a node that is allocated and linked back to it.  The erased node is
\* deallocated.
C21_EraseKeepsOtherIterators ==
    [][\A l \in Lists, pos \in NodeIds :
          (last'.op = "erase" /\ Erase(l, pos)) =>
             LET order == CellOrder(EraseHeap(heap, pos), lists)
             IN  /\ Cardinality(LiveCells(heap')) = Cardinality(LiveCells(heap)) - 1
                 /\ \A n \in LiveCells(heap) \ {pos} :
                       LET m == Renamed(order, n)
                       IN  /\ Live(heap', m)
                           /\ heap'[m].data = heap[n].data
                           /\ Linked(heap', m)
                           /\ heap'[m].next =
                                 Renamed(order, IF heap[n].next = pos
                                                THEN heap[pos].next ELSE heap[n].next)
                           /\ heap'[m].prev =
                                 Renamed(order, IF heap[n].prev = pos
                                                THEN heap[pos].prev ELSE heap[n].prev)]_vars

\* C21 witness: an erase has removed the last element of list a, returned
\* end(), and left [0, 1] behind.
C21_Witness ==
    /\ last.op = "erase" /\ last.l = "a"
    /\ last.res = IterAt(lists["a"].m_head)
    /\ Elems("a") = <<0, 1>>

\* C22: no node, sentinel or element, is in the rings of two lists, in any
\* state reached by copy and move construction, copy and move assignment
\* and swap.
C22_NoSharedNode ==
    SharedNodes(heap, lists) = {}

\* C22 witness: list b, copy-constructed, holds [1] as list a does, in nodes
\* of its own.
C22_Witness ==
    /\ last.op = "list_copy" /\ last.l = "b"
    /\ Elems("a") = <<1>> /\ Elems("b") = <<1>>
    /\ lists["a"].m_head # lists["b"].m_head

\* The place of position p in list l: the index of its element, and one
\* past the last index for end().
PlaceOf(l, p) ==
    IF p = lists[l].m_head THEN Len(Elems(l)) + 1
    ELSE IndexOf(RingNodes(heap, lists[l].m_head), p)

\* C23: erase(first, last) on a range of elements removes the elements of
\* [first, last) and deallocates their nodes, keeps every other element in
\* its order, and returns last.
C23_EraseRangeRemoves ==
    [][\A first, stop \in NodeIds :
          (last'.op = "erase_range" /\ EraseRange("a", first, stop)) =>
             LET i == PlaceOf("a", first)
                 j == PlaceOf("a", stop)
                 after == RingNodes(heap', lists'["a"].m_head)
             IN  /\ ListSeq(heap', lists'["a"].m_head) =
                       SubSeq(Elems("a"), 1, i - 1) \o SubSeq(Elems("a"), j, Len(Elems("a")))
                 /\ Cardinality(LiveCells(heap')) =
                       Cardinality(LiveCells(heap)) - (j - i)
                 /\ last'.res = IterAt(IF i <= Len(after) THEN after[i]
                                       ELSE lists'["a"].m_head)]_vars

\* C23 witness: erase(first, last) has removed two elements of list a and
\* left [2], returning an iterator to the 2.
C23_Witness ==
    /\ last.op = "erase_range" /\ last.l = "a"
    /\ Elems("a") = <<2>>
    /\ last.res = IterAt(heap[lists["a"].m_head].next)
    /\ Cardinality(FreeIds(heap)) = 2

\* C24: push / emplace put their argument on top of the sequence of stored
\* elements, pop() removes exactly the top element, and top() returns the top
\* element, the most recently pushed one that has not been popped: the chain
\* from m_head is an abstract LIFO sequence.
C24_StackRefinesLifo ==
    [][\A s \in Stacks :
          (last'.l = s /\ StackIsLive(s)) =>
             LET before == StackSeq(sheap, stacks[s].m_head)
                 after == StackSeq(sheap', stacks'[s].m_head)
             IN  /\ last'.op \in {"stack_push", "stack_emplace"} =>
                       after = <<last'.arg[1]>> \o before
                 /\ last'.op = "stack_pop" =>
                       after = IF before = <<>> THEN <<>> ELSE Tail(before)
                 /\ last'.op = "stack_top" =>
                       /\ after = before
                       /\ last'.res = IF before = <<>> THEN Nullopt
                                      ELSE Some(Head(before))]_vars

\* top() has returned 1, pushed after 2.
C24_Witness ==
    /\ last.op = "stack_top" /\ last.l = "s" /\ last.res = Some(1)
    /\ StackSeq(sheap, stacks["s"].m_head) = <<1, 2>>

\* C25: on a stack that holds no element, top() returns an empty optional,
\* pop() changes nothing and size() is 0 before and after.
C25_EmptyStackTopAndPop ==
    [][\A s \in Stacks :
          (last'.l = s /\ StackIsLive(s)
              /\ StackNodes(sheap, stacks[s].m_head) = <<>>) =>
             /\ last'.op = "stack_top" => last'.res = Nullopt
             /\ last'.op = "stack_size" => last'.res = SizeOf(0)
             /\ last'.op = "stack_pop" =>
                   /\ UNCHANGED stackVars
                   /\ stacks'[s].m_size = 0
                   /\ StackIsEmpty(stacks'[s])]_vars

\* top() has returned std::nullopt.
C25_Witness ==
    /\ last.op = "stack_top" /\ last.l = "s" /\ last.res = Nullopt
    /\ StackIsLive("s") /\ stacks["s"].m_size = 0

\* C26: for every queue object, size() is the number of elements in the
\* ring of m_head; a queue constructed from a range of n elements has
\* size() = n.
C26_QueueSizeCountsElements ==
    \A q \in Queues :
       queues[q].st = "live" =>
          queues[q].m_size = Len(RingNodes(qheap, queues[q].m_head))

\* C27: for every stack object, size() is the number of nodes reachable from
\* m_head, and empty() is true exactly when size() is 0.
C27_StackSizeCountsNodes ==
    \A s \in Stacks :
       StackIsLive(s) =>
          /\ stacks[s].m_size = Len(StackNodes(sheap, stacks[s].m_head))
          /\ StackIsEmpty(stacks[s]) <=> (stacks[s].m_size = 0)

\* Stack t has been moved from and stack s holds its two elements.
C27_Witness ==
    /\ last.op = "stack_move_assign" /\ last.l = "s"
    /\ stacks["s"].m_size = 2 /\ StackSeq(sheap, stacks["s"].m_head) = <<2, 0>>
    /\ StackIsLive("t") /\ stacks["t"].m_size = 0 /\ stacks["t"].m_head = Null

\* C28: search(key) returns a non-empty optional referring to an element
\* equal to key when the tree stores key, and an empty optional when it does
\* not.
C28_SearchFindsStored ==
    (last.op = "tree_search" /\ ~ub) =>
       last.res = IF TreeBag(theap, tree.m_root)[last.arg[1]] > 0
                  THEN Some(last.arg[1])
                  ELSE Nullopt

\* C29: remove(key) on a tree that stores key removes one node holding key
\* and no other, and size() drops by 1; on a tree that does not store key it
\* changes nothing; it dereferences no null pointer.
C29_RemoveRemovesOne ==
    [][last'.op = "tree_remove" =>
          LET key == last'.arg[1]
              stored == TreeBag(theap, tree.m_root)
              left == TreeBag(theap', tree'.m_root)
          IN  /\ ~ub'
              /\ IF stored[key] > 0
                 THEN /\ left = [stored EXCEPT ![key] = @ - 1]
                      /\ tree'.m_size = tree.m_size - 1
                 ELSE /\ left = stored
                      /\ tree'.m_size = tree.m_size]_vars

\* C30: erase_after(prev, end) leaves the nodes up to prev followed by the
\* nodes from end on, linked prev to end and with their values, and
\* deallocates the nodes strictly between prev and end.
C30_EraseAfterRangeRemoves ==
    [][last'.op = "fwd_erase_after_range" =>
          LET prev == last'.arg[1]
              end == last'.arg[2]
              ns == FwdNodes(fheap, flist.m_head)
              i == CHOOSE k \in 1..Len(ns) : ns[k] = prev
              j == IF end = Null THEN Len(ns) + 1
                   ELSE CHOOSE k \in 1..Len(ns) : ns[k] = end
          IN  /\ FwdNodes(fheap', flist'.m_head) =
                    SubSeq(ns, 1, i) \o SubSeq(ns, j, Len(ns))
              /\ fheap'[prev].next = end
              /\ \A k \in 1..Len(ns) :
                    IF i < k /\ k < j
                    THEN ~Allocated(fheap', ns[k])
                    ELSE fheap'[ns[k]].data = fheap[ns[k]].data]_vars

\* Sequence s from its last member to its first.
Mirror(s) == [i \in 1..Len(s) |-> s[Len(s) + 1 - i]]

\* C31: reverse() leaves the nodes of the list in the opposite order, each
\* with its value, allocates and frees nothing, and leaves a list of at most
\* one element as it is; reversing any list twice gives back the list.
C31_ReverseMirrors ==
    [][/\ last'.op = "fwd_reverse" =>
             LET ns == FwdNodes(fheap, flist.m_head)
             IN  /\ FwdNodes(fheap', flist'.m_head) = Mirror(ns)
                 /\ FwdSeq(fheap', flist'.m_head) = Mirror(FwdSeq(fheap, flist.m_head))
                 /\ \A n \in NodeIds : /\ fheap'[n].st = fheap[n].st
                                       /\ fheap'[n].data = fheap[n].data
                 /\ Len(ns) <= 1 => fheap' = fheap /\ flist' = flist
       /\ LET once == FwdReverseFrom(fheap, flist.m_head)
              twice == FwdReverseFrom(once.h, once.head)
          IN  flist.st = "live" => twice.h = fheap /\ twice.head = flist.m_head]_vars

\* reverse() has put the node allocated first at the front of three.
C31_Witness ==
    /\ last.op = "fwd_reverse" /\ FwdSeq(fheap, flist.m_head) = <<0, 1, 2>>
    /\ flist.m_head = 1

\* The nodes a list object owns: its sentinel and the nodes of its ring.
Owned == UNION {Range(Ring(heap, lists[l].m_head)) : l \in {m \in Lists : IsLive(m)}}

\* C32: every node of list that is allocated and not deallocated is the
\* sentinel of a live list or in the ring of one.
C32_NoLeakedNode == \A n \in NodeIds : Allocated(heap, n) => n \in Owned

\* C33: a move assignment between two lists, in each branch, leaves every node
\* it does not deallocate in the ring of a list, the fresh sentinel of the
\* source included, so that the node is deallocated later by the list that
\* owns it, whose allocator equals the one that allocated it.
C33_AssignedNodesDeallocated ==
    [][\A l, src \in Lists, how \in MoveBranches :
          (last'.op = "move_assign" /\ l # src /\ MoveAssign(l, src, how)) =>
             /\ ~ub'
             /\ Live(heap', lists'[src].m_head)
             /\ \A n \in NodeIds :
                   Allocated(heap', n) =>
                      \E m \in Lists : n \in Range(Ring(heap', lists'[m].m_head))]_vars


StackLiveCells(h) == {n \in NodeIds : h[n].st = "live"}

\* The state after a copy assignment to s from t, seen from the state before.
StackCopied(s, t) ==
    LET mine == StackNodes(sheap', stacks'[s].m_head)
        theirs == StackNodes(sheap', stacks'[t].m_head)
    IN  /\ ~ub'
        /\ StackSeq(sheap', stacks'[s].m_head) = StackSeq(sheap, stacks[t].m_head)
        /\ stacks'[s].m_size = stacks[t].m_size
        /\ stacks'[s].m_size = Len(mine)
        /\ StackSeq(sheap', stacks'[t].m_head) = StackSeq(sheap, stacks[t].m_head)
        /\ stacks'[t].m_size = stacks[t].m_size
        /\ Len(theirs) = Len(StackNodes(sheap, stacks[t].m_head))
        /\ Range(mine) \cap Range(theirs) = {}
        /\ StackLiveCells(sheap') = Range(mine) \cup Range(theirs)
        /\ \A n \in NodeIds : sheap'[n].st # "freed"

\* C34: after the copy assignment a = b of two distinct stacks, through
\* either __M_copy_assign, a has the elements of b in b's order and b's
\* size(), whether a was shorter, longer or as long as b; b is unchanged;
\* the only cells still allocated are the nodes of a and of b, so every node
\* cut from a was deallocated, and none twice.
C34_StackCopyAssignMatches ==
    [][\A s, t \in Stacks :
          /\ (last'.op = "stack_copy_assign" /\ s # t /\ StackCopyAssign(s, t))
                => StackCopied(s, t)
          /\ (last'.op = "stack_copy_assign_propagate"
                /\ StackCopyAssignPropagate(s, t)) => StackCopied(s, t)]_vars

C34_Witness ==
    /\ last.op = "stack_copy_assign_propagate" /\ last.l = "s"
    /\ last.arg = <<3>>
    /\ StackSeq(sheap, stacks["s"].m_head) = <<2>>
    /\ StackSeq(sheap, stacks["t"].m_head) = <<2>>


TreeNodes == TreeReach(theap, tree.m_root, MaxNodes)

\* C35: at every node n of the tree, the values of n's left subtree are <=
\* n's value and the values of n's right subtree are > n's value, and each
\* child of n is a node whose parent link is n.
C35_TreeOrdered ==
    ~ub =>
       \A n \in TreeNodes :
          /\ \A k \in TreeReach(theap, theap[n].left, MaxNodes) :
                theap[k].data <= theap[n].data
          /\ \A k \in TreeReach(theap, theap[n].right, MaxNodes) :
                theap[k].data > theap[n].data
          /\ \A c \in {theap[n].left, theap[n].right} \ {Null} :
                Live(theap, c) /\ theap[c].parent = n

\* C36: size() is the number of nodes reachable from the root, and empty()
\* (m_root == nullptr) holds exactly when size() is 0.
C36_TreeSizeCountsNodes ==
    (~ub /\ tree.st = "live") =>
       /\ tree.m_size = Cardinality(TreeNodes)
       /\ (tree.m_root = Null) <=> (tree.m_size = 0)

\* C37: clear() on a tree built by insert and emplace returns, with every
\* node of the tree deallocated, each through a live pointer, no other cell
\* touched, m_root null and size() 0.
C37_ClearFreesEveryNode ==
    [][last'.op = "tree_clear" =>
          /\ ~ub'
          /\ last'.res = Void
          /\ \A n \in NodeIds :
                theap'[n] = IF n \in TreeNodes THEN TreeFreedCell ELSE theap[n]
          /\ tree'.m_root = Null
          /\ tree'.m_size = 0]_vars

C37_Witness ==
    /\ last.op = "tree_clear" /\ last.arg = <<2>> /\ ~ub
    /\ Cardinality({n \in NodeIds : theap[n].st = "freed"}) = MaxNodes


PrintOps == {"print_inorder", "print_preorder", "print_postorder"}

\* C38: the three print functions return and leave every node as it was,
\* links included; print_inorder prints the stored values in non-decreasing
\* order, one value for each node.
C38_PrintRestoresLinks ==
    [][last'.op \in PrintOps =>
          /\ ~ub'
          /\ last'.res = Void
          /\ theap' = theap
          /\ tree' = tree
          /\ last'.op = "print_inorder" =>
                LET out == last'.arg
                IN  /\ \A i \in 1..(Len(out) - 1) : out[i] <= out[i + 1]
                    /\ \A v \in Values :
                          Cardinality({i \in 1..Len(out) : out[i] = v}) =
                             TreeBag(theap, tree.m_root)[v]]_vars

C38_Witness ==
    /\ last.op = "print_inorder" /\ ~ub
    /\ last.arg = <<0, 1, 1, 2>>
    /\ \E n \in TreeNodes : theap[n].left # Null /\ theap[n].right # Null


\* C39: __M_assign returns for every length of the list and of the range,
\* also when the list is not empty and at least as long as the non-empty
\* range; the list then holds the values of the range.
C39_FwdAssignTerminates ==
    [][last'.op = "fwd_assign" =>
          /\ ~ub'
          /\ last'.res = Void
          /\ FwdSeq(fheap', flist'.m_head) = last'.arg]_vars

=============================================================================
